---- MODULE Spec2Model ----
(***************************************************************************)
(* Verification model of inkframe's Selection Engine                       *)
(* (src/selection/picker.js): the weighted, history-aware photo pick and   *)
(* the navigation history with its cursor.                                 *)
(*                                                                         *)
(* JavaScript values are modelled as records: an array is                  *)
(* [kind |-> "array", items |-> <<...>>], null/undefined is NullValue, a   *)
(* photo object is [kind |-> "photo", url, timestamp], a Date is           *)
(* [kind |-> "date", year, month, day] with JavaScript's 0-based month.    *)
(* navigationIndex keeps the code's 0-based value (-1 when empty), so the  *)
(* record under the cursor is navigationHistory[navigationIndex + 1].      *)
(***************************************************************************)
EXTENDS Integers, Sequences, FiniteSets, TLC

(***************************************************************************)
(* Bounds of the model                                                     *)
(***************************************************************************)
\* config.historySize ranges over 1..MaxHistorySize
MaxHistorySize == 2
\* number of API calls made in one behaviour
MaxSteps == 6

(***************************************************************************)
(* JavaScript values                                                       *)
(***************************************************************************)
NullValue == [kind |-> "null"]

Array(s) == [kind |-> "array", items |-> s]

Date(y, m, d) == [kind |-> "date", year |-> y, month |-> m, day |-> d]

Photo(u, ts) == [kind |-> "photo", url |-> u, timestamp |-> ts]

Range(s) == {s[i] : i \in 1..Len(s)}

Min(a, b) == IF a <= b THEN a ELSE b

Abs(a) == IF a < 0 THEN -a ELSE a

RECURSIVE SumSeq(_)
SumSeq(s) == IF s = <<>> THEN 0 ELSE Head(s) + SumSeq(Tail(s))

(***************************************************************************)
(* Calendar arithmetic behind Date: days since 1970-01-01 (getTime() in    *)
(* whole days) and the day number inside the leap year 2000.               *)
(***************************************************************************)
IsLeapYear(y) == (y % 4 = 0 /\ y % 100 # 0) \/ y % 400 = 0

\* days of a common year in front of month m (0-based)
CumulativeDays == << 0, 31, 59, 90, 120, 151, 181, 212, 243, 273, 304, 334 >>

DaysBeforeMonth(y, m) ==
  CumulativeDays[m + 1] + (IF IsLeapYear(y) /\ m > 1 THEN 1 ELSE 0)

\* days from 1970-01-01 to January 1 of year y (y >= 1970)
DaysBeforeYear(y) ==
  365 * (y - 1970) + ((y - 1969) \div 4) - ((y - 1901) \div 100) + ((y - 1601) \div 400)

EpochDay(d) == DaysBeforeYear(d.year) + DaysBeforeMonth(d.year, d.month) + d.day - 1

\* new Date(2000, month, day), as a day number
DateIn2000(month, day) == DaysBeforeMonth(2000, month) + day

(***************************************************************************)
(* The environment: the clock and the photo objects the album holds        *)
(***************************************************************************)
\* Date.now() / new Date(): June 10, 2026
Today == Date(2026, 5, 10)

\* taken 9 days ago, in the current year
PhotoA == Photo("a", Date(2026, 5, 1))
\* no capture timestamp
PhotoB == Photo("b", NullValue)
\* June 8 two years ago: 732 days old
PhotoC == Photo("c", Date(2024, 5, 8))

Catalogs ==
  { Array(<<>>), Array(<<PhotoC>>), Array(<<PhotoB, PhotoC>>),
    Array(<<PhotoA, PhotoB, PhotoC>>) }

PhotosArgs == Catalogs \cup {NullValue}

(***************************************************************************)
(* Configuration (src/config.js)                                           *)
(***************************************************************************)
Infinity == 999999

Bucket(maxDays, weight) == [maxDays |-> maxDays, weight |-> weight]

DefaultTimeBuckets ==
  << Bucket(30, 30), Bucket(180, 25), Bucket(730, 25), Bucket(Infinity, 20) >>

\* TIME_BUCKETS="30:50,0:50"
HalfTimeBuckets == << Bucket(30, 50), Bucket(Infinity, 50) >>

\* TIME_BUCKETS="30:100,0:0"
RecentOnlyTimeBuckets == << Bucket(30, 100), Bucket(Infinity, 0) >>

\* the configurations explored: << timeBuckets, onThisDayEnabled >>
Configurations ==
  { << DefaultTimeBuckets, TRUE >>,
    << HalfTimeBuckets, FALSE >>,
    << RecentOnlyTimeBuckets, TRUE >> }

\* what validateConfig requires of config.timeBuckets
ValidTimeBuckets(buckets) ==
  /\ SumSeq([i \in 1..Len(buckets) |-> buckets[i].weight]) = 100
  /\ \A i \in 1..Len(buckets) : buckets[i].weight >= 0 /\ buckets[i].weight <= 100

onThisDayWindowDays == 3

VARIABLES
  historySize,        \* config.historySize
  timeBuckets,        \* config.timeBuckets
  onThisDayEnabled,   \* config.onThisDayEnabled
  recentHistory,      \* urls of the recently shown photos, oldest first
  navigationHistory,  \* photos shown, oldest first
  navigationIndex,    \* cursor into navigationHistory, -1 when empty
  taggedOnThisDay,    \* urls of the photo objects whose isOnThisDay is true
  lastOp,             \* the API call made last
  catalog,            \* the photos argument of the latest pickPhoto call
  lastResult,         \* what it returned
  lastPath,           \* the return statement pickPhoto left through
  lastCleared,        \* how often that pickPhoto call emptied recentHistory
  preIndex,           \* navigationIndex when the last call began
  preTotal,           \* navigationHistory.length when the last call began
  preRecent,          \* recentHistory when the last call began
  pickLog,            \* urls returned by the latest pickPhoto calls, oldest first
  steps,              \* API calls made so far
  imageCacheEnabled,  \* config.imageCacheEnabled
  currentImageCache,  \* pipeline.js: the result of the latest processImage, or null
  response,           \* what the latest HTTP request was answered with
  phase,              \* where the running applyFloydSteinberg/quantizeOnly call is
  width,              \* its width argument
  height,             \* its height argument
  data,               \* the raw RGB pixels sharp decoded from inputBuffer
  pixels,             \* the Float32Array of accumulators, one RGB triple per pixel
  x,                  \* loop counter: column
  y,                  \* loop counter: row
  outputData,         \* the Uint8Array handed to sharp for encoding
  pickCall,           \* the pickPhoto call that is inside addToHistory, or null
  inflight,           \* the requests being handled, each with its position
  cachedPhotos,       \* cache.js: the photo list of the album
  lastRefresh,        \* cache.js: null, or whether the last refresh is recent
  isRefreshing,       \* cache.js: the flag of refresh()
  fetching            \* the fetchAlbum calls that have not settled yet

vars ==
  << historySize, timeBuckets, onThisDayEnabled, recentHistory, navigationHistory,
     navigationIndex, taggedOnThisDay, lastOp, catalog, lastResult, lastPath,
     lastCleared, preIndex, preTotal, preRecent, pickLog, steps,
     imageCacheEnabled, currentImageCache, response,
     phase, width, height, data, pixels, x, y, outputData,
     pickCall, inflight, cachedPhotos, lastRefresh, isRefreshing, fetching >>

config == << historySize, timeBuckets, onThisDayEnabled, imageCacheEnabled >>

\* the state of the server around the picker (index.js, pipeline.js)
server == << currentImageCache, response >>

\* the state of a dithering call (dither.js)
render == << phase, width, height, data, pixels, x, y, outputData >>

\* the album cache (album/cache.js)
album == << cachedPhotos, lastRefresh, isRefreshing, fetching >>

\* the calls and requests that are under way
calls == << pickCall, inflight >>

\* the album cache as loaded, nothing under way
Quiet ==
  /\ pickCall = NullValue
  /\ inflight = <<>>
  /\ cachedPhotos = Array(<<>>)
  /\ lastRefresh = NullValue
  /\ isRefreshing = FALSE
  /\ fetching = {}

\* no request answered yet, no image processed yet
ServerIdle ==
  /\ currentImageCache = NullValue
  /\ response = NullValue

\* no dithering call made yet
RenderIdle ==
  /\ phase = "idle"
  /\ width = 0
  /\ height = 0
  /\ data = <<>>
  /\ pixels = <<>>
  /\ x = 0
  /\ y = 0
  /\ outputData = <<>>

(***************************************************************************)
(* picker.js helpers                                                       *)
(***************************************************************************)
ageDays(photo) == EpochDay(Today) - EpochDay(photo.timestamp)

\* ageDays < bucket.maxDays: a photo exactly maxDays old moves on
RECURSIVE PlaceInBucketStrict(_, _, _)
PlaceInBucketStrict(age, buckets, i) ==
  IF i > Len(buckets) THEN Len(buckets)
  ELSE IF age < buckets[i].maxDays THEN i
  ELSE PlaceInBucketStrict(age, buckets, i + 1)

\* the loop over the buckets: the first one, from i on, with age <= maxDays;
\* the last bucket when none is
RECURSIVE PlaceInBucket(_, _, _)
PlaceInBucket(age, buckets, i) ==
  IF i > Len(buckets) THEN Len(buckets)
  ELSE IF age <= buckets[i].maxDays THEN i
  ELSE PlaceInBucket(age, buckets, i + 1)

\* index of the bucket categorizePhotos pushes the photo into
BucketOf(photo, buckets) ==
  IF photo.timestamp = NullValue THEN Len(buckets)
  ELSE PlaceInBucket(ageDays(photo), buckets, 1)

categorizePhotos(photos) ==
  [i \in 1..Len(timeBuckets) |->
     [maxDays |-> timeBuckets[i].maxDays,
      weight |-> timeBuckets[i].weight,
      photos |-> SelectSeq(photos, LAMBDA p : BucketOf(p, timeBuckets) = i)]]

\* The host's time zone, as far as new Date(2000, month, day) sees it: local
\* midnight of day n of 2000 is in daylight time when dstStart < n <= dstEnd
\* (the clock changes during the night of the start and of the end day).
TimeZone(name, dstStart, dstEnd) ==
  [kind |-> "zone", name |-> name, dstStart |-> dstStart, dstEnd |-> dstEnd]

\* no daylight time: the container's default
UTC == TimeZone("UTC", 0, 0)

\* daylight time from April 2 to October 29, 2000
NewYork == TimeZone("America/New_York", DateIn2000(3, 2), DateIn2000(9, 29))

HoursPerDay == 24

\* new Date(2000, month, day) in the zone, in hours
LocalMidnightIn2000(zone, month, day) ==
  LET n == DateIn2000(month, day)
  IN HoursPerDay * n - (IF zone.dstStart < n /\ n <= zone.dstEnd THEN 1 ELSE 0)

\* the filter predicate of findOnThisDayPhotos when new Date() is today;
\* diffDays and wrappedDiff are kept in hours (they are fractions of a day
\* when a clock change lies between the two dates)
isOnThisDayIn(zone, today, photo, windowDays) ==
  /\ photo.timestamp # NullValue
  /\ photo.timestamp.year # today.year
  /\ LET todayInYear == LocalMidnightIn2000(zone, today.month, today.day)
         photoInYear ==
           LocalMidnightIn2000(zone, photo.timestamp.month, photo.timestamp.day)
         diffHours == Abs(todayInYear - photoInYear)
         daysInYear == 365
         wrappedDiff == Min(diffHours, daysInYear * HoursPerDay - diffHours)
     IN wrappedDiff <= windowDays * HoursPerDay

IsOnThisDay(photo, windowDays) == isOnThisDayIn(UTC, Today, photo, windowDays)

findOnThisDayPhotos(photos, windowDays) ==
  SelectSeq(photos, LAMBDA p : IsOnThisDay(p, windowDays))

\* the set is built from an empty list: nothing is ever filtered
filterRecentlyShownKeepsAll(photos, recent) ==
  SelectSeq(photos, LAMBDA p : p.url \notin Range(<<>>))

filterRecentlyShown(photos, recent) ==
  SelectSeq(photos, LAMBDA p : p.url \notin Range(recent))

\* the values selectRandom(photos) can return, over all draws of Math.random()
selectRandom(photos) ==
  IF Len(photos) = 0 THEN {NullValue} ELSE Range(photos)

RECURSIVE ShiftWhileLonger(_, _)
ShiftWhileLonger(s, n) == IF Len(s) > n THEN ShiftWhileLonger(Tail(s), n) ELSE s

\* pops the newest entry instead of shifting the oldest
addToHistoryDropsNewest(recent, url) ==
  LET pushed == Append(recent, url)
  IN IF Len(pushed) > historySize THEN SubSeq(pushed, 1, historySize) ELSE pushed

\* shifts while length >= historySize
addToHistoryKeepsOneLess(recent, url) ==
  ShiftWhileLonger(Append(recent, url), historySize - 1)

\* shifts while length > historySize + 1
addToHistoryKeepsOneMore(recent, url) ==
  ShiftWhileLonger(Append(recent, url), historySize + 1)

addToHistory(recent, url) == ShiftWhileLonger(Append(recent, url), historySize)

\* shifts the oldest record without navigationIndex--
addToNavigationHistoryKeepsIndex(nav, index, photo) ==
  LET truncated == IF index < Len(nav) - 1 THEN SubSeq(nav, 1, index + 1) ELSE nav
      pushed == Append(truncated, photo)
      maxNavHistory == historySize * 2
  IN IF Len(pushed) > maxNavHistory
       THEN [history |-> Tail(pushed), index |-> Len(pushed) - 1]
       ELSE [history |-> pushed, index |-> Len(pushed) - 1]

\* evicts only beyond maxNavHistory + 1
addToNavigationHistoryLateEviction(nav, index, photo) ==
  LET truncated == IF index < Len(nav) - 1 THEN SubSeq(nav, 1, index + 1) ELSE nav
      pushed == Append(truncated, photo)
      maxNavHistory == historySize * 2
  IN IF Len(pushed) > maxNavHistory + 1
       THEN [history |-> Tail(pushed), index |-> (Len(pushed) - 1) - 1]
       ELSE [history |-> pushed, index |-> Len(pushed) - 1]

\* pushes without truncating the forward entries
addToNavigationHistoryNoTruncate(nav, index, photo) ==
  LET pushed == Append(nav, photo)
      maxNavHistory == historySize * 2
  IN IF Len(pushed) > maxNavHistory
       THEN [history |-> Tail(pushed), index |-> (Len(pushed) - 1) - 1]
       ELSE [history |-> pushed, index |-> Len(pushed) - 1]

\* the navigation history and cursor after addToNavigationHistory(photo)
addToNavigationHistory(nav, index, photo) ==
  LET truncated == IF index < Len(nav) - 1 THEN SubSeq(nav, 1, index + 1) ELSE nav
      pushed == Append(truncated, photo)
      maxNavHistory == historySize * 2
  IN IF Len(pushed) > maxNavHistory
       THEN [history |-> Tail(pushed), index |-> (Len(pushed) - 1) - 1]
       ELSE [history |-> pushed, index |-> Len(pushed) - 1]

(***************************************************************************)
(* pickPhoto                                                               *)
(***************************************************************************)
\* cumulative weight in front of bucket i of the weighted loop
RECURSIVE CumulativeBefore(_, _)
CumulativeBefore(buckets, i) ==
  IF i <= 1 THEN 0 ELSE CumulativeBefore(buckets, i - 1) + buckets[i - 1].weight

\* Draws of roll = Math.random() * activeWeight, a real in [0, activeWeight)
\* (0 when activeWeight is 0). The loop only compares roll with the
\* cumulative weights, so one draw per interval between them is enough:
\* its left end.
Rolls(nonEmptyBuckets, activeWeight) ==
  IF activeWeight <= 0 THEN {0}
  ELSE {r \in {CumulativeBefore(nonEmptyBuckets, i) : i \in 1..Len(nonEmptyBuckets)} :
          r < activeWeight}

\* the bucket the weighted loop stops at for a roll, or 0 when it runs out
RECURSIVE RolledBucket(_, _, _, _)
RolledBucket(nonEmptyBuckets, roll, i, cumulative) ==
  IF i > Len(nonEmptyBuckets) THEN 0
  ELSE IF roll < cumulative + nonEmptyBuckets[i].weight THEN i
  ELSE RolledBucket(nonEmptyBuckets, roll, i + 1, cumulative + nonEmptyBuckets[i].weight)

Outcome(photo, path, recent, cleared) ==
  [photo |-> photo, path |-> path, recent |-> recent, cleared |-> cleared]

\* Every way a call pickPhoto(photos) can end when recentHistory = recent:
\* the photo returned, the return statement taken, recentHistory as it is
\* just before the returned photo is recorded, and the number of resets.
\* !photos || photos.length === 0
NoPhotos(photos) == photos = NullValue \/ Len(photos.items) = 0

\* the early return null after emptying recentHistory
EmptyResultClears(recent) == {Outcome(NullValue, "empty", <<>>, 0)}

\* the early return null: nothing is touched
EmptyResult(recent) == {Outcome(NullValue, "empty", recent, 0)}

\* the outcomes of the weighted draw alone, for a recentHistory that leaves
\* at least one candidate
weightedDrawOnly(photos, recent) ==
  LET buckets == categorizePhotos(photos.items)
      nonEmptyBuckets ==
        SelectSeq([i \in 1..Len(buckets) |->
                     [maxDays |-> buckets[i].maxDays,
                      weight |-> buckets[i].weight,
                      available |-> filterRecentlyShown(buckets[i].photos, recent)]],
                  LAMBDA b : Len(b.available) > 0)
      activeWeight ==
        SumSeq([i \in 1..Len(nonEmptyBuckets) |-> nonEmptyBuckets[i].weight])
  IN UNION {
       LET b == RolledBucket(nonEmptyBuckets, roll, 1, 0)
       IN IF b = 0
            THEN {Outcome(NullValue, "weighted", recent, 0)}
            ELSE {Outcome(p, "weighted", recent, 0) :
                    p \in selectRandom(nonEmptyBuckets[b].available)}
       : roll \in Rolls(nonEmptyBuckets, activeWeight)}

\* after emptying recentHistory the retry goes straight to the weighted draw
pickPhotoRetriesWeightedOnly(photos, recent) ==
  IF NoPhotos(photos)
    THEN EmptyResult(recent)
    ELSE
      LET availableOnThisDay ==
            filterRecentlyShown(findOnThisDayPhotos(photos.items, onThisDayWindowDays),
                                recent)
          anniversary ==
            IF onThisDayEnabled /\ Len(availableOnThisDay) > 0
              THEN {Outcome(p, "onThisDay", recent, 0) : p \in selectRandom(availableOnThisDay)}
              ELSE {}
          weighted ==
            IF filterRecentlyShown(photos.items, recent) = <<>>
              THEN {Outcome(o.photo, o.path, o.recent, 1) :
                      o \in weightedDrawOnly(photos, <<>>)}
              ELSE weightedDrawOnly(photos, recent)
      IN anniversary \cup weighted

RECURSIVE pickPhoto(_, _)
pickPhoto(photos, recent) ==
  IF NoPhotos(photos)
    THEN EmptyResult(recent)
    ELSE
      LET onThisDayPhotos == findOnThisDayPhotos(photos.items, onThisDayWindowDays)
          availableOnThisDay == filterRecentlyShown(onThisDayPhotos, recent)
          anniversary ==
            IF onThisDayEnabled /\ Len(availableOnThisDay) > 0
              THEN {Outcome(p, "onThisDay", recent, 0) : p \in selectRandom(availableOnThisDay)}
              ELSE {}
          buckets == categorizePhotos(photos.items)
          availableBuckets ==
            [i \in 1..Len(buckets) |->
               [maxDays |-> buckets[i].maxDays,
                weight |-> buckets[i].weight,
                available |-> filterRecentlyShown(buckets[i].photos, recent)]]
          totalAvailable ==
            SumSeq([i \in 1..Len(availableBuckets) |-> Len(availableBuckets[i].available)])
          nonEmptyBuckets == SelectSeq(availableBuckets, LAMBDA b : Len(b.available) > 0)
          activeWeight ==
            SumSeq([i \in 1..Len(nonEmptyBuckets) |-> nonEmptyBuckets[i].weight])
          weighted ==
            IF totalAvailable = 0
              THEN {Outcome(o.photo, o.path, o.recent, o.cleared + 1) :
                      o \in pickPhoto(photos, <<>>)}
              ELSE UNION {
                     LET b == RolledBucket(nonEmptyBuckets, roll, 1, 0)
                     IN IF b = 0
                          THEN {Outcome(NullValue, "weighted", recent, 0)}
                          ELSE {Outcome(p, "weighted", recent, 0) :
                                  p \in selectRandom(nonEmptyBuckets[b].available)}
                     : roll \in Rolls(nonEmptyBuckets, activeWeight)}
      IN anniversary \cup weighted

(***************************************************************************)
(* The API calls, each one atomic (the module is synchronous)              *)
(***************************************************************************)
\* what is kept of a call of the picker
Noted(op, result, path, cleared) ==
  /\ lastOp' = op
  /\ lastResult' = result
  /\ lastPath' = path
  /\ lastCleared' = cleared
  /\ preIndex' = navigationIndex
  /\ preTotal' = Len(navigationHistory)
  /\ preRecent' = recentHistory

ObserveCall(op, result, path, cleared) ==
  /\ Noted(op, result, path, cleared)
  /\ steps' = steps + 1

\* a call made on the module directly, not through the server
Observe(op, result, path, cleared) ==
  /\ ObserveCall(op, result, path, cleared)
  /\ UNCHANGED << server, render, calls, album >>

LogPick(log, url) == ShiftWhileLonger(Append(log, url), MaxHistorySize + 1)

\* what a pickPhoto call that took outcome o leaves in the module state
RecordPick(o) ==
  IF o.photo = NullValue
    THEN /\ recentHistory' = o.recent
         /\ UNCHANGED << navigationHistory, navigationIndex, taggedOnThisDay, pickLog >>
    ELSE LET nav == addToNavigationHistory(navigationHistory, navigationIndex, o.photo)
         IN /\ recentHistory' = addToHistory(o.recent, o.photo.url)
            /\ navigationHistory' = nav.history
            /\ navigationIndex' = nav.index
            /\ taggedOnThisDay' =
                 IF o.path = "onThisDay"
                   THEN taggedOnThisDay \cup {o.photo.url}
                   ELSE taggedOnThisDay
            /\ pickLog' = LogPick(pickLog, o.photo.url)

PickPhoto(photos) ==
  /\ steps < MaxSteps
  /\ catalog' = photos
  /\ \E o \in pickPhoto(photos, recentHistory) :
       /\ Observe("pickPhoto", o.photo, o.path, o.cleared)
       /\ RecordPick(o)
  /\ UNCHANGED config

\* navigating back counts as showing the photo: its url enters recentHistory
GetPreviousPhotoCountsAsShown ==
  /\ steps < MaxSteps
  /\ IF navigationIndex <= 0
       THEN /\ Observe("getPreviousPhoto", NullValue, "none", 0)
            /\ UNCHANGED << navigationIndex, recentHistory >>
       ELSE /\ navigationIndex' = navigationIndex - 1
            /\ recentHistory' =
                 addToHistory(recentHistory, navigationHistory[(navigationIndex - 1) + 1].url)
            /\ Observe("getPreviousPhoto",
                       navigationHistory[(navigationIndex - 1) + 1], "none", 0)
  /\ UNCHANGED << config, catalog, navigationHistory, taggedOnThisDay, pickLog >>

\* returns the record under the cursor, then moves the cursor back
GetPreviousPhotoReturnsOld ==
  /\ steps < MaxSteps
  /\ IF navigationIndex <= 0
       THEN /\ Observe("getPreviousPhoto", NullValue, "none", 0)
            /\ UNCHANGED navigationIndex
       ELSE /\ navigationIndex' = navigationIndex - 1
            /\ Observe("getPreviousPhoto",
                       navigationHistory[navigationIndex + 1], "none", 0)
  /\ UNCHANGED << config, catalog, recentHistory, navigationHistory, taggedOnThisDay, pickLog >>

GetPreviousPhoto ==
  /\ steps < MaxSteps
  /\ IF navigationIndex <= 0
       THEN /\ Observe("getPreviousPhoto", NullValue, "none", 0)
            /\ UNCHANGED navigationIndex
       ELSE /\ navigationIndex' = navigationIndex - 1
            /\ Observe("getPreviousPhoto",
                       navigationHistory[(navigationIndex - 1) + 1], "none", 0)
  /\ UNCHANGED << config, catalog, recentHistory, navigationHistory, taggedOnThisDay, pickLog >>

\* the guard lets the cursor step onto total: navigationIndex >= length
GetNextPhotoPastEnd ==
  /\ steps < MaxSteps
  /\ IF navigationIndex >= Len(navigationHistory)
       THEN /\ Observe("getNextPhoto", NullValue, "none", 0)
            /\ UNCHANGED navigationIndex
       ELSE /\ navigationIndex' = navigationIndex + 1
            /\ Observe("getNextPhoto",
                       IF navigationIndex + 1 < Len(navigationHistory)
                         THEN navigationHistory[(navigationIndex + 1) + 1]
                         ELSE NullValue,
                       "none", 0)
  /\ UNCHANGED << config, catalog, recentHistory, navigationHistory, taggedOnThisDay, pickLog >>

\* moves the cursor to the newest record instead of one step forward
GetNextPhotoToTail ==
  /\ steps < MaxSteps
  /\ IF navigationIndex >= Len(navigationHistory) - 1
       THEN /\ Observe("getNextPhoto", NullValue, "none", 0)
            /\ UNCHANGED navigationIndex
       ELSE /\ navigationIndex' = Len(navigationHistory) - 1
            /\ Observe("getNextPhoto",
                       navigationHistory[Len(navigationHistory)], "none", 0)
  /\ UNCHANGED << config, catalog, recentHistory, navigationHistory, taggedOnThisDay, pickLog >>

GetNextPhoto ==
  /\ steps < MaxSteps
  /\ IF navigationIndex >= Len(navigationHistory) - 1
       THEN /\ Observe("getNextPhoto", NullValue, "none", 0)
            /\ UNCHANGED navigationIndex
       ELSE /\ navigationIndex' = navigationIndex + 1
            /\ Observe("getNextPhoto",
                       navigationHistory[(navigationIndex + 1) + 1], "none", 0)
  /\ UNCHANGED << config, catalog, recentHistory, navigationHistory, taggedOnThisDay, pickLog >>

ClearHistory ==
  /\ steps < MaxSteps
  /\ recentHistory # <<>>
  /\ recentHistory' = <<>>
  /\ Observe("clearHistory", NullValue, "none", 0)
  /\ UNCHANGED << config, catalog, navigationHistory, navigationIndex, taggedOnThisDay, pickLog >>

ClearNavigationHistory ==
  /\ steps < MaxSteps
  /\ navigationHistory # <<>>
  /\ navigationHistory' = <<>>
  /\ navigationIndex' = -1
  /\ Observe("clearNavigationHistory", NullValue, "none", 0)
  /\ UNCHANGED << config, catalog, recentHistory, taggedOnThisDay, pickLog >>

(***************************************************************************)
(* Specification: any sequence of API calls with any catalogs              *)
(***************************************************************************)
\* the modules as loaded, under a validated configuration
LoadedWith(historySizes) ==
  /\ historySize \in historySizes
  /\ \E c \in Configurations : timeBuckets = c[1] /\ onThisDayEnabled = c[2]
  /\ ValidTimeBuckets(timeBuckets)
  /\ recentHistory = <<>>
  /\ navigationHistory = <<>>
  /\ navigationIndex = -1
  /\ taggedOnThisDay = {}
  /\ lastOp = "init"
  /\ lastResult = NullValue
  /\ lastPath = "none"
  /\ lastCleared = 0
  /\ preIndex = -1
  /\ preTotal = 0
  /\ preRecent = <<>>
  /\ pickLog = <<>>
  /\ steps = 0
  /\ ServerIdle
  /\ RenderIdle

\* HISTORY_SIZE is a positive number or not set, nothing is under way
Loaded ==
  /\ LoadedWith(1..MaxHistorySize)
  /\ Quiet

\* IMAGE_CACHE_ENABLED is not set: the cache is on
Start ==
  /\ Loaded
  /\ imageCacheEnabled = TRUE

Init ==
  /\ Start
  /\ catalog = NullValue

Pick == \E photos \in PhotosArgs : PickPhoto(photos)

Next ==
  \/ Pick
  \/ GetPreviousPhoto
  \/ GetNextPhoto
  \/ ClearHistory
  \/ ClearNavigationHistory

Spec == Init /\ [][Next]_vars

(***************************************************************************)
(* Specification: every pick is made with the same catalog, and nothing    *)
(* but pickPhoto touches recentHistory                                     *)
(***************************************************************************)
InitFixed ==
  /\ Start
  /\ catalog \in Catalogs

PickFixed == PickPhoto(catalog)

NextFixed ==
  \/ PickFixed
  \/ GetPreviousPhoto
  \/ GetNextPhoto

SpecFixed == InitFixed /\ [][NextFixed]_vars

(***************************************************************************)
(* The read-only calls, and the specification of navigation: picks from    *)
(* one catalog, previous, next, current and status                         *)
(***************************************************************************)
getCurrentPhoto(nav, index) ==
  IF index < 0 \/ index >= Len(nav) THEN NullValue ELSE nav[index + 1]

canGoPrevious(index) == index > 0

canGoNext(nav, index) == index < Len(nav) - 1

getNavigationStatus(nav, index) ==
  [kind |-> "status",
   index |-> index,
   total |-> Len(nav),
   canGoPrevious |-> canGoPrevious(index),
   canGoNext |-> canGoNext(nav, index)]

GetCurrentPhoto ==
  /\ steps < MaxSteps
  /\ Observe("getCurrentPhoto",
             getCurrentPhoto(navigationHistory, navigationIndex), "none", 0)
  /\ UNCHANGED << config, catalog, recentHistory, navigationHistory, navigationIndex,
                  taggedOnThisDay, pickLog >>

GetNavigationStatus ==
  /\ steps < MaxSteps
  /\ Observe("getNavigationStatus",
             getNavigationStatus(navigationHistory, navigationIndex), "none", 0)
  /\ UNCHANGED << config, catalog, recentHistory, navigationHistory, navigationIndex,
                  taggedOnThisDay, pickLog >>

NextNavigation ==
  \/ PickFixed
  \/ GetPreviousPhoto
  \/ GetNextPhoto
  \/ GetCurrentPhoto
  \/ GetNavigationStatus

SpecNavigation == InitFixed /\ [][NextNavigation]_vars

(***************************************************************************)
(* What the calls did, read off the observation variables                  *)
(***************************************************************************)
\* the last call was a pickPhoto that returned a photo
PickedAPhoto == lastOp = "pickPhoto" /\ lastResult # NullValue

\* the step is a pickPhoto call that returns a photo
PicksAPhoto == lastOp' = "pickPhoto" /\ lastResult' # NullValue

\* records 0..index of a navigation history
Kept(nav, index) == SubSeq(nav, 1, index + 1)

Urls(photos) == {p.url : p \in Range(photos)}

(***************************************************************************)
(* Navigation History and its cursor                                       *)
(***************************************************************************)
\* C1: in every reachable state the cursor is -1 exactly when Navigation
\* History is empty, and otherwise 0 <= navigationIndex < total.
NavigationCursorValid ==
  /\ (navigationIndex = -1) <=> (navigationHistory = <<>>)
  /\ navigationHistory # <<>> =>
       (0 <= navigationIndex /\ navigationIndex < Len(navigationHistory))

\* a pick at full capacity evicted the oldest record and left the cursor on
\* the last one
CursorAfterEviction ==
  /\ PickedAPhoto
  /\ preTotal = 2 * historySize
  /\ preIndex = preTotal - 1
  /\ navigationIndex = 2 * historySize - 1

\* C2: Navigation History never holds more than 2 x historySize records, and
\* a pick made with the cursor at the tail of a full history evicts exactly
\* the oldest record: the others move up by one, the new one is last.
NavigationCapacity ==
  [][ /\ Len(navigationHistory') <= 2 * historySize'
      /\ (/\ PicksAPhoto
          /\ navigationIndex = Len(navigationHistory) - 1
          /\ Len(navigationHistory) = 2 * historySize)
         => navigationHistory' = Append(Tail(navigationHistory), lastResult')
    ]_vars

\* a pick found the history full, with a first and a second record that
\* differ, and made the second the oldest
OldestEvicted ==
  /\ PickedAPhoto
  /\ preTotal = 2 * historySize
  /\ preIndex = preTotal - 1
  /\ Len(navigationHistory) = 2 * historySize
  /\ historySize = 2
  /\ navigationHistory[1] # navigationHistory[2]

\* C4: a pick that returns a photo while the cursor is at i < total - 1
\* discards every record behind position i, keeps records 0..i, appends the
\* new record and leaves total = i + 2 with the cursor on the new record.
TruncateForward ==
  [][ (PicksAPhoto /\ navigationIndex < Len(navigationHistory) - 1)
      => /\ Len(navigationHistory') = navigationIndex + 2
         /\ Kept(navigationHistory', navigationIndex)
              = Kept(navigationHistory, navigationIndex)
         /\ navigationHistory'[Len(navigationHistory')] = lastResult'
         /\ navigationIndex' = navigationIndex + 1
    ]_vars

\* previous(); previous(); pick(catalog) on three records: the pick began at
\* index 0 of 3 and left 2 records
PickAfterTwoPrevious ==
  /\ PickedAPhoto
  /\ preTotal = 3
  /\ preIndex = 0
  /\ Len(navigationHistory) = 2
  /\ navigationIndex = 1

(***************************************************************************)
(* Recent-Shown History                                                    *)
(***************************************************************************)
\* C3: Recent-Shown History holds at most historySize urls, and they are the
\* urls of the most recent picks, in pick order.
RecentHistoryIsLatestPicks ==
  /\ Len(recentHistory) <= historySize
  /\ Len(recentHistory) <= Len(pickLog)
  /\ recentHistory =
       SubSeq(pickLog, Len(pickLog) - Len(recentHistory) + 1, Len(pickLog))

\* a pick found the history full and pushed the oldest url out
OldestUrlEvicted ==
  /\ PickedAPhoto
  /\ lastCleared = 0
  /\ Len(preRecent) = historySize
  /\ Len(recentHistory) = historySize
  /\ historySize = 2
  /\ recentHistory[1] = preRecent[2]

(***************************************************************************)
(* pickPhoto: what it returns                                              *)
(***************************************************************************)
\* C5: pickPhoto returns a photo of the catalog whenever the catalog is not
\* empty, and null only for an empty (or null) catalog.
PickReturnsCatalogPhoto ==
  lastOp = "pickPhoto" =>
    IF NoPhotos(catalog)
      THEN lastResult = NullValue
      ELSE lastResult \in Range(catalog.items)

\* C6: pickPhoto with an empty or null catalog returns null and leaves
\* recentHistory, navigationHistory and navigationIndex as they were.
EmptyCatalogPickChangesNothing ==
  [][ (lastOp' = "pickPhoto" /\ NoPhotos(catalog'))
      => /\ lastResult' = NullValue
         /\ UNCHANGED << recentHistory, navigationHistory, navigationIndex >>
    ]_vars

\* pickPhoto([]) was called with both histories filled
EmptyPickOnFilledHistories ==
  /\ lastOp = "pickPhoto"
  /\ catalog = Array(<<>>)
  /\ lastResult = NullValue
  /\ recentHistory # <<>>
  /\ navigationHistory # <<>>

\* C7: a photo returned by pickPhoto was not in recentHistory when the call
\* began, unless every catalog photo was; with a catalog of 2 photos of which
\* exactly one was in recentHistory, a returned photo is the other one.
AvoidsRecentlyShown ==
  [][ PicksAPhoto
      => /\ lastResult'.url \in Range(recentHistory)
              => Urls(catalog'.items) \subseteq Range(recentHistory)
         /\ (/\ Len(catalog'.items) = 2
             /\ Cardinality(Urls(catalog'.items) \cap Range(recentHistory)) = 1)
              => lastResult'.url \in Urls(catalog'.items) \ Range(recentHistory)
    ]_vars

\* a pick among 2 photos, one of them recently shown, returned the other
ForcedOtherOfTwo ==
  /\ PickedAPhoto
  /\ Len(catalog.items) = 2
  /\ Cardinality(Urls(catalog.items) \cap Range(preRecent)) = 1
  /\ lastResult.url \notin Range(preRecent)
  /\ lastCleared = 0

(***************************************************************************)
(* pickPhoto: repetition and the history reset                             *)
(***************************************************************************)
\* the last n urls of the pick log
LatestPicks(n) == SubSeq(pickLog, Len(pickLog) - n + 1, Len(pickLog))

Distinct(s) == \A i, j \in 1..Len(s) : i # j => s[i] # s[j]

\* C8: with every pick made from one catalog of more than historySize
\* photos, no pickPhoto call empties recentHistory, and the latest
\* historySize + 1 picks (or all of them, when fewer) are distinct photos.
NoRepeatWithinWindow ==
  (~NoPhotos(catalog) /\ Cardinality(Urls(catalog.items)) > historySize)
    => /\ lastOp = "pickPhoto" => lastCleared = 0
       /\ Distinct(LatestPicks(Min(historySize + 1, Len(pickLog))))

\* historySize = 2 and a catalog of 3: three picks in a row, all different
ThreeDistinctPicks ==
  /\ PickedAPhoto
  /\ historySize = 2
  /\ Len(catalog.items) = 3
  /\ Len(pickLog) = 3
  /\ Distinct(pickLog)

\* C9: a pickPhoto call that finds every catalog photo in recentHistory
\* empties the history, returns a catalog photo and leaves recentHistory
\* holding exactly the returned photo's url.
ExhaustionResetsToReturnedPhoto ==
  [][ (/\ lastOp' = "pickPhoto"
       /\ ~NoPhotos(catalog')
       /\ Urls(catalog'.items) \subseteq Range(recentHistory))
      => /\ lastCleared' = 1
         /\ lastResult' \in Range(catalog'.items)
         /\ recentHistory' = << lastResult'.url >>
    ]_vars

\* the catalog holds 2 photos, both in the unbounded bucket, historySize = 1
TwoOldPhotosScenario ==
  /\ historySize = 1
  /\ ~NoPhotos(catalog)
  /\ Len(catalog.items) = 2
  /\ \A p \in Range(catalog.items) : BucketOf(p, timeBuckets) = Len(timeBuckets)
  /\ timeBuckets[Len(timeBuckets)].maxDays = Infinity

\* C10 as stated: in the scenario, after two picks in a row, a third pick can
\* return the photo the second one returned.
ThirdPickMayRepeatSecond ==
  (/\ TwoOldPhotosScenario
   /\ PickedAPhoto
   /\ Len(pickLog) >= 2
   /\ steps < MaxSteps)
    => ENABLED (PickFixed /\ lastResult' = lastResult)

\* C10 amended: in the scenario no pick empties recentHistory, and the third
\* of three picks returns the photo of the first, never that of the second.
ThirdPickReturnsFirst ==
  (TwoOldPhotosScenario /\ Len(pickLog) >= 3)
    => /\ LatestPicks(3)[3] = LatestPicks(3)[1]
       /\ LatestPicks(3)[3] # LatestPicks(3)[2]
       /\ lastOp = "pickPhoto" => lastCleared = 0

\* three picks were made in the scenario, from the start
ThreePicksOfTwoPhotos ==
  /\ TwoOldPhotosScenario
  /\ PickedAPhoto
  /\ Len(pickLog) = 3
  /\ steps = 3

\* every catalog photo is in recentHistory
Exhausted(photos, recent) ==
  ~NoPhotos(photos) /\ Urls(photos.items) \subseteq Range(recent)

\* C11 as stated: a pickPhoto call that emptied recentHistory returns through
\* the weighted draw, never through the on-this-day branch.
ResetNeverReturnsAnniversary ==
  (lastOp = "pickPhoto" /\ lastCleared >= 1) => lastPath = "weighted"

\* C11 amended: a pickPhoto call empties recentHistory at most once, only
\* when every catalog photo was in it, and then ends as a call on the empty
\* history can end, on-this-day branch included: where the catalog has an
\* on-this-day photo and the rule is enabled, the call that empties the
\* history can return an anniversary pick.
ResetRerunsWholePick ==
  /\ (lastOp = "pickPhoto" /\ lastCleared >= 1)
       => /\ lastCleared = 1
          /\ Exhausted(catalog, preRecent)
          /\ \E o \in pickPhoto(catalog, <<>>) :
               o.photo = lastResult /\ o.path = lastPath
  /\ (/\ Exhausted(catalog, recentHistory)
      /\ onThisDayEnabled
      /\ findOnThisDayPhotos(catalog.items, onThisDayWindowDays) # <<>>
      /\ steps < MaxSteps)
       => ENABLED (/\ PickPhoto(catalog)
                   /\ lastCleared' = 1
                   /\ lastPath' = "onThisDay")

\* a call emptied recentHistory and returned an anniversary pick
ResetThenAnniversary ==
  /\ PickedAPhoto
  /\ lastCleared = 1
  /\ lastPath = "onThisDay"
  /\ Exhausted(catalog, preRecent)

(***************************************************************************)
(* Recording a pick, and moving through Navigation History                 *)
(***************************************************************************)
\* C12: a pickPhoto call that returns a photo, through either branch, leaves
\* its url as the newest entry of recentHistory and the photo as the last
\* record of navigationHistory with the cursor on it; a getCurrentPhoto
\* call made next returns that photo and a getNextPhoto call made next
\* returns null and leaves the cursor where it is.
PickIsRecordedInBothHistories ==
  [][ /\ PicksAPhoto
         => /\ lastPath' \in {"onThisDay", "weighted"}
            /\ recentHistory' # <<>>
            /\ recentHistory'[Len(recentHistory')] = lastResult'.url
            /\ navigationHistory' # <<>>
            /\ navigationHistory'[Len(navigationHistory')] = lastResult'
            /\ navigationIndex' = Len(navigationHistory') - 1
      /\ (PickedAPhoto /\ lastOp' = "getCurrentPhoto")
         => lastResult' = lastResult
      /\ (PickedAPhoto /\ lastOp' = "getNextPhoto")
         => lastResult' = NullValue /\ UNCHANGED navigationIndex
    ]_vars

\* getCurrentPhoto was called right after the latest pick, which filled the
\* history to capacity, and returned the photo picked, one that carries the
\* on-this-day tag
CurrentAfterAnniversaryPick ==
  /\ lastOp = "getCurrentPhoto"
  /\ lastResult # NullValue
  /\ lastResult.url \in taggedOnThisDay
  /\ lastResult.url = pickLog[Len(pickLog)]
  /\ preIndex = navigationIndex
  /\ navigationIndex = Len(navigationHistory) - 1
  /\ Len(navigationHistory) = 2 * historySize

\* the calls that only move through, or read, Navigation History
NavigationCalls ==
  {"getPreviousPhoto", "getNextPhoto", "getCurrentPhoto", "getNavigationStatus"}

\* C13: getPreviousPhoto, getNextPhoto, getCurrentPhoto and
\* getNavigationStatus leave recentHistory as it was, whatever they return.
NavigationLeavesRecentHistory ==
  [][ lastOp' \in NavigationCalls => UNCHANGED recentHistory ]_vars

\* getPreviousPhoto returned a photo whose url is not in the non-empty
\* recentHistory
PreviousReturnedUnlistedPhoto ==
  /\ lastOp = "getPreviousPhoto"
  /\ lastResult # NullValue
  /\ recentHistory # <<>>
  /\ lastResult.url \notin Range(recentHistory)

\* C14: getPreviousPhoto with the cursor at index 0 or on an empty history
\* returns null and changes nothing; otherwise it moves the cursor back by
\* exactly one and returns the record at the new position; the records and
\* their order stay as they were in both cases.
PreviousStepsBackByOne ==
  [][ lastOp' = "getPreviousPhoto"
      => /\ UNCHANGED << navigationHistory, recentHistory, config >>
         /\ IF navigationIndex = 0 \/ navigationHistory = <<>>
              THEN lastResult' = NullValue /\ UNCHANGED navigationIndex
              ELSE /\ navigationIndex' = navigationIndex - 1
                   /\ lastResult' = navigationHistory[navigationIndex' + 1]
    ]_vars

\* getPreviousPhoto moved from the last of three records to the second, a
\* different photo
PreviousFromThirdRecord ==
  /\ lastOp = "getPreviousPhoto"
  /\ preIndex = 2
  /\ navigationIndex = 1
  /\ lastResult = navigationHistory[2]
  /\ lastResult # navigationHistory[3]

\* C15: getNextPhoto with the cursor on the last record or on an empty
\* history returns null and changes nothing; otherwise it moves the cursor
\* forward by exactly one and returns the record at the new position; the
\* records and their order stay as they were in both cases.
NextStepsForwardByOne ==
  [][ lastOp' = "getNextPhoto"
      => /\ UNCHANGED << navigationHistory, recentHistory, config >>
         /\ IF navigationIndex = Len(navigationHistory) - 1 \/ navigationHistory = <<>>
              THEN lastResult' = NullValue /\ UNCHANGED navigationIndex
              ELSE /\ navigationIndex' = navigationIndex + 1
                   /\ lastResult' = navigationHistory[navigationIndex' + 1]
    ]_vars

\* getNextPhoto moved from the first of three records to the second, a
\* different photo
NextFromFirstRecord ==
  /\ lastOp = "getNextPhoto"
  /\ preIndex = 0
  /\ navigationIndex = 1
  /\ Len(navigationHistory) = 3
  /\ lastResult = navigationHistory[2]
  /\ lastResult # navigationHistory[1]

\* C16: getPreviousPhoto keeps the records, so that when it is called with
\* the cursor at i > 0 and getNextPhoto is called next, the cursor is back at
\* i and getNextPhoto returns the record getCurrentPhoto returned before the
\* two calls, the one at position i.
PreviousThenNextRestores ==
  [][ /\ lastOp' = "getPreviousPhoto" => UNCHANGED navigationHistory
      /\ (lastOp = "getPreviousPhoto" /\ preIndex > 0 /\ lastOp' = "getNextPhoto")
         => /\ navigationIndex' = preIndex
            /\ lastResult' # NullValue
            /\ lastResult' = getCurrentPhoto(navigationHistory, preIndex)
            /\ getCurrentPhoto(navigationHistory', navigationIndex') = lastResult'
    ]_vars

\* pick, pick, getPreviousPhoto, getNextPhoto: the only run of 4 calls with
\* 2 recorded picks that ends with a getNextPhoto returning a record
PickPickPreviousNext ==
  /\ steps = 4
  /\ Len(pickLog) = 2
  /\ lastOp = "getNextPhoto"
  /\ lastResult # NullValue
  /\ preIndex = 0
  /\ navigationIndex = 1
  /\ lastResult = navigationHistory[2]
  /\ lastResult # navigationHistory[1]

\* C17 as stated: when a pickPhoto, getPreviousPhoto or getNextPhoto call
\* leaves fewer records than it found, the history was at capacity and the
\* records lost are the oldest ones: those kept are the newest of before.
TotalShrinksOnlyByEviction ==
  [][ (/\ lastOp' \in {"pickPhoto", "getPreviousPhoto", "getNextPhoto"}
       /\ Len(navigationHistory') < Len(navigationHistory))
      => /\ Len(navigationHistory) = 2 * historySize
         /\ \E n \in 1..Len(navigationHistory) :
              SubSeq(navigationHistory, n + 1, Len(navigationHistory))
                = SubSeq(navigationHistory', 1, Len(navigationHistory) - n)
    ]_vars

\* C17 amended: getPreviousPhoto and getNextPhoto keep the records; a
\* pickPhoto call that returns a photo with the cursor at i leaves
\* min(i + 2, 2 x historySize) records, so the count goes down exactly when
\* the cursor was two or more records before the last, by truncation of the
\* records behind the cursor; eviction at capacity keeps the count.
TotalShrinksOnlyByTruncation ==
  [][ /\ lastOp' \in {"getPreviousPhoto", "getNextPhoto"}
         => UNCHANGED navigationHistory
      /\ (lastOp' = "pickPhoto" /\ lastResult' = NullValue)
         => UNCHANGED navigationHistory
      /\ PicksAPhoto
         => /\ Len(navigationHistory') = Min(navigationIndex + 2, 2 * historySize)
            /\ Len(navigationHistory') < Len(navigationHistory)
                 <=> navigationIndex < Len(navigationHistory) - 2
            /\ Len(navigationHistory') < Len(navigationHistory)
                 => Kept(navigationHistory', navigationIndex)
                      = Kept(navigationHistory, navigationIndex)
    ]_vars

\* a pick made below capacity, two records before the last, left fewer
\* records than it found
TruncationShrinksTotal ==
  /\ PickedAPhoto
  /\ preTotal < 2 * historySize
  /\ preIndex = preTotal - 3
  /\ Len(navigationHistory) = preTotal - 1

(***************************************************************************)
(* The catalog's photo objects                                             *)
(***************************************************************************)
\* C18: no pickPhoto call, whichever branch it returns through, changes or
\* adds a field of a photo object of the catalog it was given.
PickLeavesCatalogRecords ==
  [][ lastOp' = "pickPhoto" => UNCHANGED taggedOnThisDay ]_vars

(***************************************************************************)
(* Specification of categorizePhotos alone: any accepted bucket list, any  *)
(* catalog                                                                 *)
(***************************************************************************)
\* TIME_BUCKETS="30:50,365:50": no catch-all bucket
BoundedTimeBuckets == << Bucket(30, 50), Bucket(365, 50) >>

\* TIME_BUCKETS="0:50,30:50": the catch-all bucket comes first
CatchAllFirstTimeBuckets == << Bucket(Infinity, 50), Bucket(30, 50) >>

TimeBucketLists ==
  { DefaultTimeBuckets, HalfTimeBuckets, RecentOnlyTimeBuckets,
    BoundedTimeBuckets, CatchAllFirstTimeBuckets }

\* capture dates 0, 30, 31, 180, 365, 366 and 2351 days before Today, and
\* one day after it
Timestamps ==
  { Date(2026, 5, 10), Date(2026, 4, 11), Date(2026, 4, 10), Date(2025, 11, 12),
    Date(2025, 5, 10), Date(2025, 5, 9), Date(2020, 0, 2), Date(2026, 5, 11) }

CategorizeArgs ==
  {Array(<< Photo("d", ts) >>) : ts \in Timestamps}
    \cup (Catalogs \ {Array(<<>>)})

InitCategorize ==
  /\ historySize \in 1..MaxHistorySize
  /\ timeBuckets \in TimeBucketLists
  /\ ValidTimeBuckets(timeBuckets)
  /\ onThisDayEnabled = FALSE
  /\ recentHistory = <<>>
  /\ navigationHistory = <<>>
  /\ navigationIndex = -1
  /\ taggedOnThisDay = {}
  /\ lastOp = "init"
  /\ lastResult = NullValue
  /\ lastPath = "none"
  /\ lastCleared = 0
  /\ preIndex = -1
  /\ preTotal = 0
  /\ preRecent = <<>>
  /\ pickLog = <<>>
  /\ steps = 0
  /\ imageCacheEnabled = TRUE
  /\ ServerIdle
  /\ RenderIdle
  /\ Quiet
  /\ catalog = NullValue

Categorize ==
  /\ steps < MaxSteps
  /\ \E photos \in CategorizeArgs :
       /\ catalog' = photos
       /\ Observe("categorizePhotos", Array(categorizePhotos(photos.items)), "none", 0)
  /\ UNCHANGED << config, recentHistory, navigationHistory, navigationIndex,
                  taggedOnThisDay, pickLog >>

NextCategorize == Categorize

SpecCategorize == InitCategorize /\ [][NextCategorize]_vars

(***************************************************************************)
(* Time Buckets                                                            *)
(***************************************************************************)
\* the buckets of a categorizePhotos result that hold the photo
Holders(photo, buckets) ==
  {i \in 1..Len(buckets) : photo \in Range(buckets[i].photos)}

\* the photo's age is within the ceiling of bucket i
Fits(photo, i) == ageDays(photo) <= timeBuckets[i].maxDays

Candidates(photos, recent) == Range(filterRecentlyShown(photos.items, recent))

\* the buckets that hold at least one of them
BucketsWithCandidates(photos, recent) ==
  {BucketOf(p, timeBuckets) : p \in Candidates(photos, recent)}

\* C20: a pickPhoto call that comes to the weighted draw chooses among the
\* buckets that still have candidates: a photo it returns is a candidate of
\* such a bucket, and when exactly one bucket has candidates the call
\* returns one of that bucket's candidates, every time.
DrawsAmongBucketsWithCandidates ==
  [][ (/\ lastOp' = "pickPhoto"
       /\ lastPath' = "weighted"
       /\ lastCleared' = 0)
      => /\ lastResult' # NullValue
              => lastResult' \in Candidates(catalog', recentHistory)
         /\ Cardinality(BucketsWithCandidates(catalog', recentHistory)) = 1
              => /\ lastResult' \in Candidates(catalog', recentHistory)
                 /\ BucketOf(lastResult', timeBuckets)
                      \in BucketsWithCandidates(catalog', recentHistory)
    ]_vars

(***************************************************************************)
(* Specification of the on-this-day filter alone: any date of today, any   *)
(* capture date, with and without daylight time                            *)
(***************************************************************************)
TimeZones == {UTC, NewYork}

\* June 10, October 30, January 1, March 1 and December 31, 2026
Todays ==
  { Date(2026, 5, 10), Date(2026, 9, 30), Date(2026, 0, 1), Date(2026, 2, 1),
    Date(2026, 11, 31) }

CaptureDates ==
  { Date(2024, 5, 8), Date(2024, 5, 20), Date(2026, 5, 8), Date(2024, 5, 13),
    Date(2024, 5, 14), Date(2025, 9, 27), Date(2025, 9, 26), Date(2025, 11, 29),
    Date(2025, 11, 28), Date(2024, 1, 27), Date(2024, 1, 26), Date(2025, 0, 3),
    Date(2025, 0, 4), Date(2025, 6, 1) }

FindOnThisDay ==
  /\ steps < MaxSteps
  /\ \E zone \in TimeZones, today \in Todays, ts \in CaptureDates \cup {NullValue} :
       LET photo == Photo("d", ts)
       IN /\ catalog' = Array(<< photo >>)
          /\ Observe("findOnThisDayPhotos",
                     [kind |-> "onThisDay",
                      zone |-> zone,
                      today |-> today,
                      photo |-> photo,
                      included |-> isOnThisDayIn(zone, today, photo, onThisDayWindowDays)],
                     "none", 0)
  /\ UNCHANGED << config, recentHistory, navigationHistory, navigationIndex,
                  taggedOnThisDay, pickLog >>

NextOnThisDay == FindOnThisDay

SpecOnThisDay == InitCategorize /\ [][NextOnThisDay]_vars

(***************************************************************************)
(* The on-this-day rule                                                    *)
(***************************************************************************)
\* days between two month/day pairs, counted in the calendar of 2000
DaysApart(a, b) == Abs(DateIn2000(a.month, a.day) - DateIn2000(b.month, b.day))

\* C21: findOnThisDayPhotos keeps a photo exactly when it has a timestamp,
\* its year is not the current year and min(d, 365 - d) <= windowDays, d
\* being the number of days between its month/day and today's.
OnThisDayExactlyWithinWindow ==
  lastOp = "findOnThisDayPhotos" =>
    (lastResult.included
       <=> /\ lastResult.photo.timestamp # NullValue
           /\ lastResult.photo.timestamp.year # lastResult.today.year
           /\ LET d == DaysApart(lastResult.photo.timestamp, lastResult.today)
              IN Min(d, 365 - d) <= onThisDayWindowDays)

(***************************************************************************)
(* quantize.js: the palette and the nearest palette color                  *)
(***************************************************************************)
\* black, white, green, blue, red, yellow
ACEP_PALETTE ==
  << << 0, 0, 0 >>, << 255, 255, 255 >>, << 0, 255, 0 >>,
     << 0, 0, 255 >>, << 255, 0, 0 >>, << 255, 255, 0 >> >>

\* the blue channel is left out of the distance
colorDistanceSquaredNoBlue(c1, c2) ==
  LET dr == c1[1] - c2[1]
      dg == c1[2] - c2[2]
  IN dr * dr + dg * dg

colorDistanceSquared(c1, c2) ==
  LET dr == c1[1] - c2[1]
      dg == c1[2] - c2[2]
      db == c1[3] - c2[3]
  IN dr * dr + dg * dg + db * db

\* the loop of findClosestColor from palette entry i on (1-based here)
RECURSIVE ClosestColorFrom(_, _, _, _)
ClosestColorFrom(color, i, minDist, closest) ==
  IF i > Len(ACEP_PALETTE) THEN closest
  ELSE LET dist == colorDistanceSquared(color, ACEP_PALETTE[i])
       IN IF dist < minDist
            THEN ClosestColorFrom(color, i + 1, dist, ACEP_PALETTE[i])
            ELSE ClosestColorFrom(color, i + 1, minDist, closest)

\* the loop with dist <= minDist: the last of several nearest entries wins
RECURSIVE ClosestColorFromLastWins(_, _, _, _)
ClosestColorFromLastWins(color, i, minDist, closest) ==
  IF i > Len(ACEP_PALETTE) THEN closest
  ELSE LET dist == colorDistanceSquared(color, ACEP_PALETTE[i])
       IN IF dist <= minDist
            THEN ClosestColorFromLastWins(color, i + 1, dist, ACEP_PALETTE[i])
            ELSE ClosestColorFromLastWins(color, i + 1, minDist, closest)

\* no quantization: the input color is returned as it is
findClosestColorKeepsInput(r, g, b) == << r, g, b >>

findClosestColorLastWins(r, g, b) ==
  ClosestColorFromLastWins(<< r, g, b >>, 1, Infinity, ACEP_PALETTE[1])

findClosestColor(r, g, b) ==
  ClosestColorFrom(<< r, g, b >>, 1, Infinity, ACEP_PALETTE[1])

\* the loop of findClosestColorIndex; closestIndex is 0-based as in the code
RECURSIVE ClosestIndexFrom(_, _, _, _)
ClosestIndexFrom(color, i, minDist, closestIndex) ==
  IF i >= Len(ACEP_PALETTE) THEN closestIndex
  ELSE LET dist == colorDistanceSquared(color, ACEP_PALETTE[i + 1])
       IN IF dist < minDist
            THEN ClosestIndexFrom(color, i + 1, dist, i)
            ELSE ClosestIndexFrom(color, i + 1, minDist, closestIndex)

findClosestColorIndex(r, g, b) == ClosestIndexFrom(<< r, g, b >>, 0, Infinity, 0)

quantizePixel(r, g, b) ==
  LET closest == findClosestColor(r, g, b)
  IN [color |-> closest,
      error |-> << r - closest[1], g - closest[2], b - closest[3] >>]

(***************************************************************************)
(* Specification of the quantizer alone: any color                         *)
(***************************************************************************)
\* channel values of the colors handed to the quantizer
ChannelValues == {0, 64, 127, 128, 200, 255}

\* the module as loaded, with the default configuration
InitRender ==
  /\ Start
  /\ historySize = 1
  /\ timeBuckets = DefaultTimeBuckets
  /\ catalog = NullValue

Quantize ==
  /\ steps < MaxSteps
  /\ \E r \in ChannelValues, g \in ChannelValues, b \in ChannelValues :
       Observe("quantize",
               [kind |-> "quantized",
                input |-> << r, g, b >>,
                color |-> findClosestColor(r, g, b),
                index |-> findClosestColorIndex(r, g, b),
                pixel |-> quantizePixel(r, g, b)],
               "none", 0)
  /\ UNCHANGED << config, catalog, recentHistory, navigationHistory, navigationIndex,
                  taggedOnThisDay, pickLog >>

NextQuantize == Quantize

SpecQuantize == InitRender /\ [][NextQuantize]_vars

(***************************************************************************)
(* The quantizer                                                           *)
(***************************************************************************)
\* 1-based positions of the palette entries equal to a color
PositionsOf(color) == {i \in 1..Len(ACEP_PALETTE) : ACEP_PALETTE[i] = color}

\* the entry at position i is a nearest one to the color, and no entry in
\* front of it is as near
FirstNearest(color, i) ==
  /\ \A j \in 1..Len(ACEP_PALETTE) :
       colorDistanceSquared(color, ACEP_PALETTE[i])
         <= colorDistanceSquared(color, ACEP_PALETTE[j])
  /\ \A j \in 1..(i - 1) :
       colorDistanceSquared(color, ACEP_PALETTE[i])
         < colorDistanceSquared(color, ACEP_PALETTE[j])

\* C22: findClosestColor returns a palette entry at minimal squared distance
\* from its input, the first such entry in palette order, and two calls in a
\* row with the same input return the same entry.
NearestIsFirstMinimal ==
  [][ lastOp' = "quantize"
      => /\ \E i \in PositionsOf(lastResult'.color) :
              FirstNearest(lastResult'.input, i)
         /\ (lastOp = "quantize" /\ lastResult.input = lastResult'.input)
              => lastResult'.color = lastResult.color
    ]_vars

\* cyan, as near to white as to green and to blue, was mapped to white
CyanMappedToWhite ==
  /\ lastOp = "quantize"
  /\ lastResult.input = << 0, 255, 255 >>
  /\ lastResult.color = << 255, 255, 255 >>

\* C23: for an input equal to a palette entry, findClosestColor returns that
\* entry, findClosestColorIndex its position in the palette, and
\* quantizePixel that entry with the error (0, 0, 0).
PaletteColorsAreFixedPoints ==
  (lastOp = "quantize" /\ PositionsOf(lastResult.input) # {})
    => /\ lastResult.color = lastResult.input
       /\ lastResult.index + 1 \in PositionsOf(lastResult.input)
       /\ lastResult.pixel.color = lastResult.input
       /\ lastResult.pixel.error = << 0, 0, 0 >>

\* yellow, the last palette entry, was quantized to position 5
YellowQuantized ==
  /\ lastOp = "quantize"
  /\ lastResult.input = << 255, 255, 0 >>
  /\ lastResult.index = 5
  /\ lastResult.color = << 255, 255, 0 >>

(***************************************************************************)
(* dither.js: Floyd-Steinberg dithering, one pixel per step                *)
(***************************************************************************)
Max(a, b) == IF a >= b THEN a ELSE b

\* The accumulators are Float32 values; the model keeps them as integers in
\* units of 1/Scale. Every value a raster of up to 4 pixels produces is a
\* multiple of 1/16^3 below 2^9, which a Float32 holds exactly.
Scale == 16 * 16 * 16

\* Math.round: the nearest integer, halves upwards
Round(value) == (2 * value + Scale) \div (2 * Scale)

\* rounds, but lets values outside 0-255 through
clampRoundsOnly(value) == Round(value)

clamp(value) == Max(0, Min(255, Round(value)))

\* the accumulator triple of color c
Accumulators(c) == << Scale * c[1], Scale * c[2], Scale * c[3] >>

\* (y * width + x), the 0-based position of a pixel in the arrays
PixelIndex(px, py) == py * width + px

\* the error is added to the pixel in front, one position back
AddErrorBehind(pix, index, err, numerator) ==
  IF index - 1 < 0 \/ index - 1 >= Len(pix) THEN pix
  ELSE [pix EXCEPT ![index] =
          << @[1] + (err[1] * numerator) \div 16,
             @[2] + (err[2] * numerator) \div 16,
             @[3] + (err[3] * numerator) \div 16 >>]

\* the sum is clamped to 0-255 as it is stored
AddErrorClamped(pix, index, err, numerator) ==
  IF index < 0 \/ index >= Len(pix) THEN pix
  ELSE [pix EXCEPT ![index + 1] =
          << Scale * clamp(@[1] + (err[1] * numerator) \div 16),
             Scale * clamp(@[2] + (err[2] * numerator) \div 16),
             Scale * clamp(@[3] + (err[3] * numerator) \div 16) >>]

\* pixels[index * channels + c] += err[c] * numerator / 16, for the three
\* channels of the pixel at 0-based position index; a write beyond the end
\* of a typed array does nothing
AddError(pix, index, err, numerator) ==
  IF index < 0 \/ index >= Len(pix) THEN pix
  ELSE [pix EXCEPT ![index + 1] =
          << @[1] + (err[1] * numerator) \div 16,
             @[2] + (err[2] * numerator) \div 16,
             @[3] + (err[3] * numerator) \div 16 >>]

\* the body of the loops for the pixel (x, y): the accumulators afterwards
DitheredAt(pix, px, py) ==
  LET idx == PixelIndex(px, py)
  IN IF idx >= Len(pix)
       THEN pix    \* reads give undefined, every write lies beyond the end
       ELSE
         LET old == pix[idx + 1]
             newColor == findClosestColor(clamp(old[1]), clamp(old[2]), clamp(old[3]))
             err == << old[1] - Scale * newColor[1],
                       old[2] - Scale * newColor[2],
                       old[3] - Scale * newColor[3] >>
             set == [pix EXCEPT ![idx + 1] = Accumulators(newColor)]
             right == IF px + 1 < width THEN AddError(set, idx + 1, err, 7) ELSE set
             bottomLeft ==
               IF py + 1 < height /\ px > 0
                 THEN AddError(right, PixelIndex(px - 1, py + 1), err, 3) ELSE right
             bottom ==
               IF py + 1 < height
                 THEN AddError(bottomLeft, PixelIndex(px, py + 1), err, 5) ELSE bottomLeft
             bottomRight ==
               IF py + 1 < height /\ px + 1 < width
                 THEN AddError(bottom, PixelIndex(px + 1, py + 1), err, 1) ELSE bottom
         IN bottomRight

\* what sharp(inputBuffer).removeAlpha().raw() decodes: RGB pixels, row by row
Raster(w, h, px) == [kind |-> "raster", width |-> w, height |-> h, data |-> px]

\* black, yellow, cyan, a light gray and a violet
PixelSamples ==
  { << 0, 0, 0 >>, << 255, 255, 0 >>, << 0, 255, 255 >>, << 200, 200, 200 >>,
    << 100, 40, 190 >> }

\* widths and heights of the rasters, and of the width and height arguments
Shapes == { << 1, 1 >>, << 2, 1 >>, << 1, 2 >>, << 2, 2 >> }

InputRasters ==
  UNION { {Raster(sh[1], sh[2], px) : px \in [1..(sh[1] * sh[2]) -> PixelSamples]}
          : sh \in Shapes }

\* the picker's state and the observations of its calls
picker ==
  << recentHistory, navigationHistory, navigationIndex, taggedOnThisDay, catalog,
     pickLog, lastOp, lastResult, lastPath, lastCleared, preIndex, preTotal,
     preRecent, steps >>

\* applyFloydSteinberg(inputBuffer, width, height) up to the loops
ApplyFloydSteinberg ==
  /\ phase = "idle"
  /\ \E raster \in InputRasters, args \in Shapes :
       /\ width' = args[1]
       /\ height' = args[2]
       /\ data' = raster.data
       /\ pixels' = [i \in 1..Len(raster.data) |-> Accumulators(raster.data[i])]
  /\ x' = 0
  /\ y' = 0
  /\ outputData' = <<>>
  /\ phase' = "dithering"
  /\ UNCHANGED << config, picker, server, calls, album >>

\* one pass through the body of the loops
DitherPixel ==
  /\ phase = "dithering"
  /\ y < height
  /\ pixels' = DitheredAt(pixels, x, y)
  /\ x' = IF x + 1 < width THEN x + 1 ELSE 0
  /\ y' = IF x + 1 < width THEN y ELSE y + 1
  /\ UNCHANGED << config, picker, server, calls, album, phase, width, height, data, outputData >>

\* the copy into outputData, a zero-filled array of width * height pixels,
\* and the encoding
DitherOutput ==
  /\ phase = "dithering"
  /\ y >= height
  /\ outputData' =
       [k \in 1..(width * height) |->
          IF k <= Len(pixels)
            THEN << clamp(pixels[k][1]), clamp(pixels[k][2]), clamp(pixels[k][3]) >>
            ELSE << 0, 0, 0 >>]
  /\ phase' = "dithered"
  /\ UNCHANGED << config, picker, server, calls, album, width, height, data, pixels, x, y >>

\* quantizeOnly(inputBuffer, width, height). Its array has the size of the
\* decoded data; sharp rejects it when that is less than width * height
\* pixels, and when it is more either rejects it or encodes the first
\* width * height pixels.
QuantizeOnly ==
  /\ phase = "idle"
  /\ \E raster \in InputRasters, args \in Shapes :
       /\ width' = args[1]
       /\ height' = args[2]
       /\ data' = raster.data
       /\ outputData' =
            [i \in 1..Len(raster.data) |->
               findClosestColor(raster.data[i][1], raster.data[i][2], raster.data[i][3])]
       /\ \/ args[1] * args[2] <= Len(raster.data) /\ phase' = "quantized"
          \/ args[1] * args[2] # Len(raster.data) /\ phase' = "failed"
  /\ UNCHANGED << config, picker, server, calls, album, pixels, x, y >>

NextDither ==
  \/ ApplyFloydSteinberg
  \/ DitherPixel
  \/ DitherOutput
  \/ QuantizeOnly

SpecDither == InitRender /\ [][NextDither]_vars

(***************************************************************************)
(* Dithering                                                               *)
(***************************************************************************)
\* the call was made with the width and height of the decoded raster's size
SizeAgrees == width * height = Len(data)

\* the pixels of the image a finished call returns
ReturnedPixels == SubSeq(outputData, 1, width * height)

\* C24: every pixel of the image applyFloydSteinberg or quantizeOnly returns
\* is one of the 6 palette colors.
OutputIsPaletteOnly ==
  phase \in {"dithered", "quantized"}
    => \A k \in 1..Len(ReturnedPixels) : PositionsOf(ReturnedPixels[k]) # {}

\* a raster of 4 pixels, none a palette color, came out of the dithering
DitheredNonPaletteRaster ==
  /\ phase = "dithered"
  /\ SizeAgrees
  /\ Len(data) = 4
  /\ \A k \in 1..Len(data) : PositionsOf(data[k]) = {}

\* every pixel of the decoded raster is the same palette color
UniformPaletteRaster ==
  /\ data # <<>>
  /\ PositionsOf(data[1]) # {}
  /\ \A k \in 1..Len(data) : data[k] = data[1]

\* C25: while a raster whose pixels all are one palette color is dithered
\* (with its own size), no step changes an accumulator, and the image
\* returned is the raster itself.
UniformPaletteRasterUnchanged ==
  [][ (UniformPaletteRaster /\ SizeAgrees /\ phase = "dithering")
      => /\ pixels' = pixels
         /\ phase' = "dithered" => outputData' = data
    ]_vars

\* a 2 x 2 raster of yellow pixels came out of the dithering
DitheredYellowRaster ==
  /\ phase = "dithered"
  /\ width = 2
  /\ height = 2
  /\ data = << << 255, 255, 0 >>, << 255, 255, 0 >>, << 255, 255, 0 >>, << 255, 255, 0 >> >>
  /\ outputData = data

\* C26: applyFloydSteinberg returns an image only when width * height is
\* the pixel count of the decoded raster.
DitherReturnsOnlyWhenSizeAgrees ==
  phase = "dithered" => SizeAgrees

\* the share of the error, in sixteenths, that the pixel (px, py) is given
\* when (x, y) is quantized
Share(px, py) ==
  IF px < 0 \/ px >= width \/ py < 0 \/ py >= height THEN 0
  ELSE IF px = x + 1 /\ py = y THEN 7
  ELSE IF px = x - 1 /\ py = y + 1 THEN 3
  ELSE IF px = x /\ py = y + 1 THEN 5
  ELSE IF px = x + 1 /\ py = y + 1 THEN 1
  ELSE 0

\* C27: the step that quantizes pixel (x, y) of a raster dithered with its
\* own width and height sets that pixel to the palette color nearest to its
\* clamped accumulator and, e being the unclamped accumulator minus that
\* color, adds exactly 7e/16 to (x+1, y), 3e/16 to (x-1, y+1), 5e/16 to
\* (x, y+1) and e/16 to (x+1, y+1) where these lie in the raster, without
\* clamping the sums; every other accumulator stays as it was.
ErrorGoesToFourNeighbours ==
  [][ (phase = "dithering" /\ y < height /\ SizeAgrees)
      => LET at == PixelIndex(x, y) + 1
             old == pixels[at]
             chosen == findClosestColor(clamp(old[1]), clamp(old[2]), clamp(old[3]))
         IN /\ pixels'[at] = Accumulators(chosen)
            /\ \A px \in 0..(width - 1), py \in 0..(height - 1) :
                 (px # x \/ py # y)
                   => \A c \in 1..3 :
                        16 * (pixels'[py * width + px + 1][c]
                                - pixels[py * width + px + 1][c])
                          = Share(px, py) * (old[c] - Scale * chosen[c])
    ]_vars

\* the first pixel of a 2 x 2 raster has been quantized, and the error it
\* gave away left an accumulator below 0 or above 255
AccumulatorOutOfByteRange ==
  /\ phase = "dithering"
  /\ SizeAgrees
  /\ width = 2
  /\ height = 2
  /\ x = 1
  /\ y = 0
  /\ \E k \in 2..4 : \E c \in 1..3 :
       pixels[k][c] < 0 \/ pixels[k][c] > 255 * Scale

\* C28: dithering a raster with its own width and height visits the pixels
\* in row-major order, a step leaves every pixel visited before it as it
\* is, and the image returned holds for every pixel the palette color it
\* was set to when it was visited.
VisitedPixelsAreFinal ==
  [][ (phase = "dithering" /\ SizeAgrees)
      => /\ y < height
            => /\ PixelIndex(x', y') = PixelIndex(x, y) + 1
               /\ x' < width
               /\ \A k \in 1..PixelIndex(x, y) : pixels'[k] = pixels[k]
               /\ PositionsOf(<< pixels'[PixelIndex(x, y) + 1][1] \div Scale,
                                 pixels'[PixelIndex(x, y) + 1][2] \div Scale,
                                 pixels'[PixelIndex(x, y) + 1][3] \div Scale >>) # {}
         /\ phase' = "dithered"
            => \A k \in 1..Len(pixels) : Accumulators(outputData'[k]) = pixels[k]
    ]_vars

\* a 2 x 2 raster came out of the dithering with a pixel that the error of
\* the pixels before it moved to another palette color than its own nearest
PixelMovedByError ==
  /\ phase = "dithered"
  /\ width = 2
  /\ height = 2
  /\ Len(data) = 4
  /\ \E k \in 2..4 :
       outputData[k] # findClosestColor(data[k][1], data[k][2], data[k][3])

(***************************************************************************)
(* Startup (src/config.js, src/index.js): the environment is read when     *)
(* config.js is loaded, then start() validates the configuration           *)
(***************************************************************************)
\* the value of a numeric expression that is not a number
NaN == 0 - 888888

\* Number(text) for the texts that occur as fields of TIME_BUCKETS
Number(text) ==
  CASE text = "" -> 0
    [] text = "0" -> 0
    [] text = "30" -> 30
    [] text = "50" -> 50
    [] text = "60" -> 60
    [] text = "100" -> 100
    [] text = "150" -> 150
    [] text = "-50" -> 0 - 50
    [] OTHER -> NaN

\* a + b of JavaScript numbers
Plus(a, b) == IF a = NaN \/ b = NaN THEN NaN ELSE a + b

\* process.env.TIME_BUCKETS: not set, or a string, given by the fields of
\* its comma-separated entries (what split(',') and split(':') find in it)
Undefined == [kind |-> "undefined"]

String(entries) == [kind |-> "string", entries |-> entries]

\* entry.trim().split(':').map(Number), and the destructuring of its first
\* two elements: a missing element is undefined
ParsedEntry(entry) ==
  LET days == Number(entry[1])
  IN [maxDays |-> IF days = 0 THEN Infinity ELSE days,
      weight |-> IF Len(entry) >= 2 THEN Number(entry[2]) ELSE NaN]

\* buckets.reduce((sum, b) => sum + b.weight, 0): undefined and NaN weights
\* both make the sum NaN
RECURSIVE TotalWeight(_)
TotalWeight(buckets) ==
  IF buckets = <<>>
    THEN 0
    ELSE LET front == TotalWeight(SubSeq(buckets, 1, Len(buckets) - 1))
         IN Plus(front, buckets[Len(buckets)].weight)

parseTimeBuckets(envValue) ==
  IF envValue = Undefined \/ envValue.entries = <<>>
    THEN NullValue
    ELSE LET buckets == [i \in 1..Len(envValue.entries) |->
                           ParsedEntry(envValue.entries[i])]
         IN IF TotalWeight(buckets) # 100 THEN NullValue ELSE Array(buckets)

\* config.timeBuckets: parseTimeBuckets(process.env.TIME_BUCKETS) || [...]
ConfiguredTimeBuckets(envValue) ==
  LET parsed == parseTimeBuckets(envValue)
  IN IF parsed = NullValue THEN DefaultTimeBuckets ELSE parsed.items

\* the errors validateConfig returns, in order
validateConfig(albumUrl, pathSecret, buckets) ==
  LET totalWeight == TotalWeight(buckets)
      outOfRange == \E i \in 1..Len(buckets) :
                      /\ buckets[i].weight # NaN
                      /\ buckets[i].weight < 0 \/ buckets[i].weight > 100
  IN (IF albumUrl = "" THEN << "GOOGLE_PHOTOS_ALBUM_URL is required" >> ELSE <<>>)
     \o (IF pathSecret = "" THEN << "PATH_SECRET is required" >> ELSE <<>>)
     \o (IF totalWeight # 100
           THEN << "TIME_BUCKETS weights must sum to 100" >> ELSE <<>>)
     \o (IF outOfRange
           THEN << "TIME_BUCKETS: each weight must be 0-100" >> ELSE <<>>)

\* the texts tried as the fields of an entry
DaysTexts == {"0", "30", "abc"}

WeightTexts == {"", "50", "60", "150", "-50"}

Entries ==
  {<< d >> : d \in DaysTexts} \cup {<< d, w >> : d \in DaysTexts, w \in WeightTexts}

\* TIME_BUCKETS unset, empty, of one entry, or of two entries with the
\* second one written as the catch-all
TimeBucketsValues ==
  {Undefined, String(<<>>)}
    \cup {String(<< e >>) : e \in Entries}
    \cup {String(<< e, f >>) : e \in Entries, f \in {g \in Entries : g[1] = "0"}}

\* GOOGLE_PHOTOS_ALBUM_URL || '' and PATH_SECRET || ''
RequiredValues == {"", "set"}

\* one run of `node src/index.js`: config.js is loaded with the environment,
\* then start() validates and either exits with code 1 or goes on to listen
StartProcess ==
  /\ steps < MaxSteps
  /\ \E envValue \in TimeBucketsValues, albumUrl \in RequiredValues,
        pathSecret \in RequiredValues :
       LET buckets == ConfiguredTimeBuckets(envValue)
           errors == validateConfig(albumUrl, pathSecret, buckets)
       IN /\ timeBuckets' = buckets
          /\ Observe("start",
                     [kind |-> "startup",
                      TIME_BUCKETS |-> envValue,
                      timeBuckets |-> buckets,
                      errors |-> errors,
                      listening |-> errors = <<>>],
                     "none", 0)
  /\ UNCHANGED << historySize, onThisDayEnabled, imageCacheEnabled, catalog,
                  recentHistory, navigationHistory, navigationIndex,
                  taggedOnThisDay, pickLog >>

NextStartup == StartProcess

SpecStartup == InitRender /\ [][NextStartup]_vars

\* the fields of an entry that split(':') finds are two numerals
WellFormedEntry(entry) ==
  /\ Len(entry) = 2
  /\ Number(entry[1]) # NaN /\ entry[1] # ""
  /\ Number(entry[2]) # NaN /\ entry[2] # ""

\* a TIME_BUCKETS string that is malformed or whose weights do not sum to 100
BadTimeBuckets(envValue) ==
  /\ envValue # Undefined
  /\ envValue.entries # <<>>
  /\ \/ \E i \in 1..Len(envValue.entries) : ~WellFormedEntry(envValue.entries[i])
     \/ SumSeq([i \in 1..Len(envValue.entries) |-> Number(envValue.entries[i][2])]) # 100

\* C29: a process started with a TIME_BUCKETS value that is malformed or
\* whose weights do not sum to 100 reports a TIME_BUCKETS configuration
\* error and does not go on to listen.
BadTimeBucketsStopStartup ==
  (lastOp = "start" /\ BadTimeBuckets(lastResult.TIME_BUCKETS))
    => /\ ~lastResult.listening
       /\ \E i \in 1..Len(lastResult.errors) :
            lastResult.errors[i] \in {"TIME_BUCKETS weights must sum to 100",
                                      "TIME_BUCKETS: each weight must be 0-100"}

(***************************************************************************)
(* The server (src/index.js, src/processing/pipeline.js): GET /image.     *)
(* A request is handled to its end before the next one is looked at; the  *)
(* raw and crop parameters shape the picture, not the choice of the photo *)
(***************************************************************************)
\* the result of processImage(photo): the picture is known by its photoUrl
ProcessedImage(photo) == [kind |-> "image", photoUrl |-> photo.url]

\* generateErrorImage(message)
ErrorImage(message) == [kind |-> "error", message |-> message]

\* GET /image?refresh=...: photos is what getPhotos() finds in the album
\* cache, downloaded tells whether processImage gets and converts the photo
GetImage(photos, forceRefresh, downloaded) ==
  /\ steps < MaxSteps
  /\ IF currentImageCache # NullValue /\ ~forceRefresh /\ imageCacheEnabled
       THEN /\ response' = currentImageCache
            /\ ObserveCall("getImage", NullValue, "none", 0)
            /\ UNCHANGED << currentImageCache, catalog, recentHistory, navigationHistory,
                            navigationIndex, taggedOnThisDay, pickLog >>
       ELSE IF photos.items = <<>>
         THEN /\ response' = ErrorImage("No photos in album")
              /\ ObserveCall("getImage", NullValue, "none", 0)
              /\ UNCHANGED << currentImageCache, catalog, recentHistory, navigationHistory,
                              navigationIndex, taggedOnThisDay, pickLog >>
         ELSE /\ catalog' = photos
              /\ \E o \in pickPhoto(photos, recentHistory) :
                   /\ ObserveCall("getImage", o.photo, o.path, o.cleared)
                   /\ RecordPick(o)
                   /\ IF o.photo = NullValue
                        THEN /\ response' = ErrorImage("Failed to select photo")
                             /\ UNCHANGED currentImageCache
                        ELSE IF downloaded
                          THEN /\ response' = ProcessedImage(o.photo)
                               /\ currentImageCache' =
                                    IF imageCacheEnabled
                                      THEN ProcessedImage(o.photo)
                                      ELSE currentImageCache
                          ELSE /\ response' = ErrorImage("Processing error")
                               /\ UNCHANGED currentImageCache
  /\ UNCHANGED << config, render, calls, album >>

\* the albums getPhotos() returns
Albums == Catalogs

GetImageRequest ==
  \E photos \in Albums, forceRefresh \in BOOLEAN, downloaded \in BOOLEAN :
    GetImage(photos, forceRefresh, downloaded)

\* the server as started, with IMAGE_CACHE_ENABLED unset or set to false
InitServer ==
  /\ Loaded
  /\ imageCacheEnabled \in BOOLEAN
  /\ catalog = NullValue

NextServer == GetImageRequest

SpecServer == InitServer /\ [][NextServer]_vars

\* C30: every GET /image request that is answered with the picture of a
\* photo made a fresh pick: pickPhoto returned that photo during the
\* request, and the photo is the newest entry of the recent history, of the
\* navigation history and of the log of picks.
EveryImageIsAFreshPick ==
  [][ (lastOp' = "getImage" /\ response'.kind = "image")
      => /\ lastResult' # NullValue
         /\ lastResult'.url = response'.photoUrl
         /\ recentHistory' # <<>>
         /\ recentHistory'[Len(recentHistory')] = response'.photoUrl
         /\ navigationIndex' = Len(navigationHistory') - 1
         /\ navigationHistory'[Len(navigationHistory')] = lastResult'
         /\ pickLog' = LogPick(pickLog, response'.photoUrl)
    ]_vars

(***************************************************************************)
(* The rendering step of processImage (src/processing/pipeline.js): the    *)
(* resized picture is either encoded as it is or dithered                  *)
(***************************************************************************)
\* config.ditherEnabled with DITHER_ENABLED unset
ditherEnabled == TRUE

\* processImage from the metadata of the resized picture to outputBuffer.
\* width and height are read from the picture itself; the picture stands
\* for imageWithOverlay.
RenderImage(raster, raw) ==
  /\ phase = "idle"
  /\ width' = raster.width
  /\ height' = raster.height
  /\ data' = raster.data
  /\ x' = 0
  /\ y' = 0
  /\ IF raw \/ ~ditherEnabled
       THEN /\ outputData' = raster.data
            /\ pixels' = <<>>
            /\ phase' = "encoded"
       ELSE /\ outputData' = <<>>
            /\ pixels' = [i \in 1..Len(raster.data) |-> Accumulators(raster.data[i])]
            /\ phase' = "dithering"
  /\ UNCHANGED << config, picker, server, calls, album >>

ProcessImage == \E raster \in InputRasters, raw \in BOOLEAN : RenderImage(raster, raw)

NextPipeline ==
  \/ ProcessImage
  \/ DitherPixel
  \/ DitherOutput

SpecPipeline == InitRender /\ [][NextPipeline]_vars

\* C31: the picture processImage produces in raw mode holds only palette
\* colors, as the dithered one does.
RawImageIsPaletteOnly ==
  phase \in {"encoded", "dithered"}
    => \A k \in 1..Len(outputData) : PositionsOf(outputData[k]) # {}

(***************************************************************************)
(* The server: GET /image/current                                          *)
(***************************************************************************)
\* GET /image/current, with the album getPhotos() returns and whether
\* processImage gets and converts the photo
GetCurrentImage(photos, downloaded) ==
  /\ steps < MaxSteps
  /\ IF currentImageCache # NullValue
       THEN /\ response' = currentImageCache
            /\ ObserveCall("getCurrentImage", NullValue, "none", 0)
            /\ UNCHANGED << currentImageCache, catalog, recentHistory, navigationHistory,
                            navigationIndex, taggedOnThisDay, pickLog >>
       ELSE IF photos.items = <<>>
         THEN /\ response' = ErrorImage("No photos in album")
              /\ ObserveCall("getCurrentImage", NullValue, "none", 0)
              /\ UNCHANGED << currentImageCache, catalog, recentHistory, navigationHistory,
                              navigationIndex, taggedOnThisDay, pickLog >>
         ELSE /\ catalog' = photos
              /\ \E o \in pickPhoto(photos, recentHistory) :
                   /\ ObserveCall("getCurrentImage", o.photo, o.path, o.cleared)
                   /\ RecordPick(o)
                   /\ IF o.photo = NullValue
                        THEN /\ response' = ErrorImage("Failed to select photo")
                             /\ UNCHANGED currentImageCache
                        ELSE IF downloaded
                          THEN /\ response' = ProcessedImage(o.photo)
                               /\ currentImageCache' =
                                    IF imageCacheEnabled
                                      THEN ProcessedImage(o.photo)
                                      ELSE currentImageCache
                          ELSE /\ response' = ErrorImage("Error")
                               /\ UNCHANGED currentImageCache
  /\ UNCHANGED << config, render, calls, album >>

GetCurrentImageRequest ==
  \E photos \in Albums, downloaded \in BOOLEAN : GetCurrentImage(photos, downloaded)

NextCurrent ==
  \/ GetImageRequest
  \/ GetCurrentImageRequest

SpecCurrent == InitServer /\ [][NextCurrent]_vars

\* C32: handling GET /image/current leaves the recent history, the
\* navigation history, the cursor and the log of picks as they are.
CurrentImageNeverPicks ==
  [][ lastOp' = "getCurrentImage"
      => UNCHANGED << recentHistory, navigationHistory, navigationIndex, pickLog >>
    ]_vars

(***************************************************************************)
(* Image URLs (src/album/fetcher.js). A string is the sequence of its      *)
(* characters                                                              *)
(***************************************************************************)
\* JavaScript values that are passed as cropMode
Text(characters) == [kind |-> "text", characters |-> characters]

Boolean(flag) == [kind |-> "boolean", flag |-> flag]

Digit(d) ==
  CASE d = 0 -> "0" [] d = 1 -> "1" [] d = 2 -> "2" [] d = 3 -> "3" [] d = 4 -> "4"
    [] d = 5 -> "5" [] d = 6 -> "6" [] d = 7 -> "7" [] d = 8 -> "8" [] d = 9 -> "9"

\* `${n}` of a natural number
RECURSIVE Decimal(_)
Decimal(n) ==
  IF n < 10 THEN << Digit(n) >> ELSE Decimal(n \div 10) \o << Digit(n % 10) >>

\* baseUrl.replace(/=[^/]*$/, ''): the match is the leftmost '=' with no '/'
\* between it and the end
RemoveSizeParameters(baseUrl) ==
  LET matches == {i \in 1..Len(baseUrl) :
                    /\ baseUrl[i] = "="
                    /\ \A j \in i..Len(baseUrl) : baseUrl[j] # "/"}
  IN IF matches = {}
       THEN baseUrl
       ELSE SubSeq(baseUrl, 1, (CHOOSE i \in matches : \A j \in matches : i <= j) - 1)

\* the switch compares with ===: a value of another type than string takes
\* the default branch; a missing argument is 'none'
CropParam(cropMode) ==
  IF cropMode.kind = "text" /\ cropMode.characters = "center"
    THEN << "-", "c" >>
    ELSE IF cropMode.kind = "text" /\ cropMode.characters = "smart"
      THEN << "-", "p" >>
      ELSE << "-", "n", "o" >>

buildImageUrl(baseUrl, w, h, cropMode) ==
  RemoveSizeParameters(baseUrl) \o << "=", "w" >> \o Decimal(w)
    \o << "-", "h" >> \o Decimal(h) \o CropParam(cropMode)

\* photo URLs: plain, with size parameters, with '=' before the last '/',
\* and with two '=' after it
BaseUrls ==
  { << "/", "/", "g", "/", "a", "b" >>,
    << "/", "/", "g", "/", "a", "b", "=", "w", "9", "-", "h", "7", "-", "c" >>,
    << "/", "/", "g", "=", "s", "/", "a", "b" >>,
    << "/", "/", "g", "/", "a", "b", "=", "s", "0", "=", "w", "9" >> }

Widths == {640, 800, 1600}

Heights == {480, 960}

CropModes ==
  { Text("center"), Text("smart"), Text("none"), Text("other"),
    Boolean(TRUE), Boolean(FALSE), Undefined }

BuildImageUrl ==
  /\ steps < MaxSteps
  /\ \E baseUrl \in BaseUrls, w \in Widths, h \in Heights, cropMode \in CropModes :
       Observe("buildImageUrl",
               [kind |-> "url",
                baseUrl |-> baseUrl,
                width |-> w,
                height |-> h,
                cropMode |-> cropMode,
                url |-> buildImageUrl(baseUrl, w, h, cropMode)],
               "none", 0)
  /\ UNCHANGED << config, catalog, recentHistory, navigationHistory, navigationIndex,
                  taggedOnThisDay, pickLog >>

NextUrl == BuildImageUrl

SpecUrl == InitRender /\ [][NextUrl]_vars

\* the part of a URL before its trailing '=...' without a '/'
BeforeSizeSuffix(url) ==
  LET cuts == {n \in 0..Len(url) :
                 \/ n = Len(url)
                 \/ /\ url[n + 1] = "="
                    /\ \A j \in (n + 1)..Len(url) : url[j] # "/"}
  IN SubSeq(url, 1, CHOOSE n \in cuts : \A m \in cuts : n <= m)

\* C33: called with true or false as its fourth argument, buildImageUrl
\* returns the base URL without its trailing '=...' suffix, then
\* '=w<width>-h<height>', then '-c' for true and '-no' for false.
BuildImageUrlFollowsCropFlag ==
  (lastOp = "buildImageUrl" /\ lastResult.cropMode.kind = "boolean")
    => lastResult.url =
         BeforeSizeSuffix(lastResult.baseUrl)
           \o << "=", "w" >> \o Decimal(lastResult.width)
           \o << "-", "h" >> \o Decimal(lastResult.height)
           \o (IF lastResult.cropMode.flag THEN << "-", "c" >> ELSE << "-", "n", "o" >>)

(***************************************************************************)
(* pickPhoto step by step: the loop of addToHistory runs one pass at a     *)
(* time. config.historySize is parseInt(HISTORY_SIZE, 10) || 20, any       *)
(* integer but 0, and validateConfig does not look at it                   *)
(***************************************************************************)
\* the values of config.historySize tried
HistorySizes == {0 - 1} \cup (1..MaxHistorySize)

InitPickSteps ==
  /\ LoadedWith(HistorySizes)
  /\ Quiet
  /\ imageCacheEnabled = TRUE
  /\ catalog = NullValue

\* pickPhoto(photos) up to recentHistory.push(url) in addToHistory; a call
\* that selects no photo returns at once
PickPhotoEnter(photos) ==
  /\ steps < MaxSteps
  /\ pickCall = NullValue
  /\ catalog' = photos
  /\ \E o \in pickPhoto(photos, recentHistory) :
       IF o.photo = NullValue
         THEN /\ Observe("pickPhoto", o.photo, o.path, o.cleared)
              /\ RecordPick(o)
         ELSE /\ recentHistory' = Append(o.recent, o.photo.url)
              /\ pickCall' = [kind |-> "pickPhoto", outcome |-> o, recent |-> recentHistory]
              /\ UNCHANGED << navigationHistory, navigationIndex, taggedOnThisDay, pickLog,
                              lastOp, lastResult, lastPath, lastCleared, preIndex, preTotal,
                              preRecent, steps, inflight, server, render, album >>
  /\ UNCHANGED config

\* one pass of `while (recentHistory.length > config.historySize)`:
\* shift() of an empty array removes nothing
AddToHistoryShift ==
  /\ pickCall # NullValue
  /\ Len(recentHistory) > historySize
  /\ recentHistory' = IF recentHistory = <<>> THEN <<>> ELSE Tail(recentHistory)
  /\ UNCHANGED << config, catalog, navigationHistory, navigationIndex, taggedOnThisDay,
                  pickLog, lastOp, lastResult, lastPath, lastCleared, preIndex, preTotal,
                  preRecent, steps, calls, server, render, album >>

\* the loop is left: addToNavigationHistory(selectedPhoto), return
PickPhotoReturn ==
  /\ pickCall # NullValue
  /\ ~(Len(recentHistory) > historySize)
  /\ LET o == pickCall.outcome
         nav == addToNavigationHistory(navigationHistory, navigationIndex, o.photo)
     IN /\ navigationHistory' = nav.history
        /\ navigationIndex' = nav.index
        /\ taggedOnThisDay' =
             IF o.path = "onThisDay" THEN taggedOnThisDay \cup {o.photo.url}
                                     ELSE taggedOnThisDay
        /\ pickLog' = LogPick(pickLog, o.photo.url)
        /\ lastOp' = "pickPhoto"
        /\ lastResult' = o.photo
        /\ lastPath' = o.path
        /\ lastCleared' = o.cleared
        /\ preIndex' = navigationIndex
        /\ preTotal' = Len(navigationHistory)
        /\ preRecent' = pickCall.recent
        /\ steps' = steps + 1
  /\ pickCall' = NullValue
  /\ UNCHANGED << config, catalog, recentHistory, inflight, server, render, album >>

PickEnter == \E photos \in PhotosArgs : PickPhotoEnter(photos)

NextPickSteps ==
  \/ PickEnter
  \/ AddToHistoryShift
  \/ PickPhotoReturn

SpecPickSteps == InitPickSteps /\ [][NextPickSteps]_vars

\* a call that has been entered is run on: JavaScript runs it to its end
SpecPickStepsFair ==
  /\ SpecPickSteps
  /\ WF_vars(AddToHistoryShift)
  /\ WF_vars(PickPhotoReturn)

\* C34: every call of pickPhoto returns.
PickPhotoTerminates == (pickCall # NullValue) ~> (pickCall = NullValue)

(***************************************************************************)
(* The album cache (src/album/cache.js). Code between two awaits runs     *)
(* without interruption; a promise that is already settled is continued    *)
(* before any other request or timer is looked at, a fetchAlbum call       *)
(* settles later, in a step of its own                                     *)
(***************************************************************************)
\* lastRefresh: a Date not older than the refresh interval, or an older one
RecentRefresh == [kind |-> "time", age |-> "recent"]

OldRefresh == [kind |-> "time", age |-> "old"]

needsRefresh(refreshed) == refreshed = NullValue \/ refreshed.age = "old"

\* the callers of the cache: the timer of startAutoRefresh and two requests
Requests == {"r1", "r2"}

Callers == {"timer"} \cup Requests

Idle(c) == c \notin DOMAIN inflight

Entered(c, call) == (c :> call) @@ inflight

Left(c) == [d \in DOMAIN inflight \ {c} |-> inflight[d]]

\* what a call of getPhotos or refresh came to
Settled(c, op, outcome, photos, needed, skipped, fetched) ==
  /\ lastOp' = op
  /\ lastResult' = [kind |-> outcome, caller |-> c, photos |-> photos,
                    needed |-> needed, skipped |-> skipped, fetched |-> fetched]
  /\ UNCHANGED << lastPath, lastCleared, preIndex, preTotal, preRecent >>

\* refresh() with the guard left out: every call fetches
refreshUnguarded(c, op, needed) ==
  /\ isRefreshing' = TRUE
  /\ fetching' = fetching \cup {c}
  /\ inflight' = Entered(c, [kind |-> op, at |-> "fetchAlbum", needed |-> needed])
  /\ UNCHANGED << cachedPhotos, lastRefresh, lastOp, lastResult, lastPath, lastCleared,
                  preIndex, preTotal, preRecent >>

\* refresh() up to its await, called by c from op: with the flag set it
\* returns, and so does the getPhotos that called it, with the list cached
refresh(c, op, needed) ==
  IF isRefreshing
    THEN /\ Settled(c, op, "resolved", cachedPhotos, needed, TRUE, "none")
         /\ UNCHANGED << album, inflight >>
    ELSE /\ isRefreshing' = TRUE
         /\ fetching' = fetching \cup {c}
         /\ inflight' = Entered(c, [kind |-> op, at |-> "fetchAlbum", needed |-> needed])
         /\ UNCHANGED << cachedPhotos, lastRefresh, lastOp, lastResult, lastPath,
                         lastCleared, preIndex, preTotal, preRecent >>

\* getPhotos() called by request c
GetPhotos(c) ==
  /\ steps < MaxSteps
  /\ Idle(c)
  /\ steps' = steps + 1
  /\ IF cachedPhotos.items = <<>> \/ needsRefresh(lastRefresh)
       THEN refresh(c, "getPhotos", TRUE)
       ELSE /\ Settled(c, "getPhotos", "resolved", cachedPhotos, FALSE, FALSE, "none")
            /\ UNCHANGED << album, inflight >>
  /\ UNCHANGED << config, catalog, recentHistory, navigationHistory, navigationIndex,
                  taggedOnThisDay, pickLog, pickCall, server, render >>

\* the timer callback: await refresh()
TimerRefresh ==
  /\ steps < MaxSteps
  /\ Idle("timer")
  /\ steps' = steps + 1
  /\ refresh("timer", "refresh", FALSE)
  /\ UNCHANGED << config, catalog, recentHistory, navigationHistory, navigationIndex,
                  taggedOnThisDay, pickLog, pickCall, server, render >>

\* a failed fetch empties the cache
FetchRejectedDropsCache(c) ==
  /\ c \in fetching
  /\ cachedPhotos' = Array(<<>>)
  /\ lastRefresh' = NullValue
  /\ isRefreshing' = FALSE
  /\ fetching' = fetching \ {c}
  /\ inflight' = Left(c)
  /\ Settled(c, inflight[c].kind, "rejected", Array(<<>>), inflight[c].needed, FALSE, "failed")
  /\ UNCHANGED << config, catalog, recentHistory, navigationHistory, navigationIndex,
                  taggedOnThisDay, pickLog, pickCall, server, render, steps >>

\* the flag is reset only after a successful fetch
FetchRejectedKeepsFlag(c) ==
  /\ c \in fetching
  /\ fetching' = fetching \ {c}
  /\ inflight' = Left(c)
  /\ Settled(c, inflight[c].kind,
             IF cachedPhotos.items = <<>> THEN "rejected" ELSE "resolved",
             cachedPhotos, inflight[c].needed, FALSE, "failed")
  /\ UNCHANGED << cachedPhotos, lastRefresh, isRefreshing >>
  /\ UNCHANGED << config, catalog, recentHistory, navigationHistory, navigationIndex,
                  taggedOnThisDay, pickLog, pickCall, server, render, steps >>

\* fetchAlbum of caller c resolves with photos: try block, finally, and the
\* return of getPhotos
FetchResolved(c, photos) ==
  /\ c \in fetching
  /\ cachedPhotos' = photos
  /\ lastRefresh' = RecentRefresh
  /\ isRefreshing' = FALSE
  /\ fetching' = fetching \ {c}
  /\ inflight' = Left(c)
  /\ Settled(c, inflight[c].kind, "resolved", photos, inflight[c].needed, FALSE, "ok")
  /\ UNCHANGED << config, catalog, recentHistory, navigationHistory, navigationIndex,
                  taggedOnThisDay, pickLog, pickCall, server, render, steps >>

\* fetchAlbum of caller c rejects: catch block, finally; the error goes on
\* to the caller when nothing is cached
FetchRejected(c) ==
  /\ c \in fetching
  /\ isRefreshing' = FALSE
  /\ fetching' = fetching \ {c}
  /\ inflight' = Left(c)
  /\ Settled(c, inflight[c].kind,
             IF cachedPhotos.items = <<>> THEN "rejected" ELSE "resolved",
             cachedPhotos, inflight[c].needed, FALSE, "failed")
  /\ UNCHANGED << cachedPhotos, lastRefresh >>
  /\ UNCHANGED << config, catalog, recentHistory, navigationHistory, navigationIndex,
                  taggedOnThisDay, pickLog, pickCall, server, render, steps >>

\* the refresh interval passes
TimePasses ==
  /\ lastRefresh = RecentRefresh
  /\ lastRefresh' = OldRefresh
  /\ UNCHANGED << config, picker, server, render, calls, cachedPhotos, isRefreshing,
                  fetching >>

RequestPhotos == \E c \in Requests : GetPhotos(c)

FetchSucceeds == \E c \in Callers, photos \in Albums : FetchResolved(c, photos)

FetchFails == \E c \in Callers : FetchRejected(c)

NextAlbum ==
  \/ RequestPhotos
  \/ TimerRefresh
  \/ FetchSucceeds
  \/ FetchFails
  \/ TimePasses

SpecAlbum == InitRender /\ [][NextAlbum]_vars

\* a call is made in this step
CallMade == steps' = steps + 1

\* a call of getPhotos or refresh comes to its end in this step: at once,
\* or when its fetch settles
CallSettles ==
  \/ CallMade /\ inflight' = inflight
  \/ DOMAIN inflight' # DOMAIN inflight /\ DOMAIN inflight' \subseteq DOMAIN inflight

\* C38: isRefreshing is true exactly while one fetchAlbum call is in flight,
\* and never more than one is; a call made while it is true returns without
\* starting a fetch; when a fetch settles, the flag is false.
RefreshIsSingleFlight ==
  [][ /\ Cardinality(fetching') <= 1
      /\ isRefreshing' <=> fetching' # {}
      /\ (CallMade /\ isRefreshing) => (fetching' = fetching /\ inflight' = inflight)
      /\ (fetching' # fetching /\ fetching' \subseteq fetching) => ~isRefreshing'
    ]_vars

\* a refresh was asked for while another caller's fetch was in flight, and
\* came back without fetching
RefreshSkippedWhileFetching ==
  /\ lastResult.kind = "resolved"
  /\ lastResult.skipped
  /\ fetching # {}
  /\ lastResult.caller \notin fetching

\* C39: when a fetch fails, cachedPhotos and lastRefresh stay as they are,
\* and the caller gets the error exactly when no photo is cached.
FailedRefreshKeepsCache ==
  [][ (CallSettles /\ lastResult'.fetched = "failed")
      => /\ cachedPhotos' = cachedPhotos
         /\ lastRefresh' = lastRefresh
         /\ lastResult'.kind = "rejected" <=> cachedPhotos.items = <<>>
    ]_vars

\* a fetch failed with an old list cached: the list stayed, nothing was thrown
FailedRefreshSwallowed ==
  /\ lastOp \in {"getPhotos", "refresh"}
  /\ lastResult.fetched = "failed"
  /\ lastResult.kind = "resolved"
  /\ cachedPhotos.items # <<>>
  /\ lastRefresh = OldRefresh

\* C40: a getPhotos call that found the cache empty or stale returns only
\* when no refresh is in flight any more.
GetPhotosWaitsForRefresh ==
  [][ (CallSettles /\ lastOp' = "getPhotos" /\ lastResult'.needed) => fetching' = {} ]_vars

\* C37: a GET /image request that is answered with an error image leaves
\* no photo recorded: the navigation history, the cursor and the log of
\* picks are as before, and the recent history is as before or was emptied.
FailedPhotoIsNotRecorded ==
  [][ (lastOp' = "getImage" /\ response'.kind = "error")
      => /\ navigationHistory' = navigationHistory
         /\ navigationIndex' = navigationIndex
         /\ pickLog' = pickLog
         /\ recentHistory' \in {recentHistory, <<>>}
    ]_vars

(***************************************************************************)
(* Requests handled side by side (src/index.js): GET /image, GET /next    *)
(* and GET /previous. A handler runs without interruption up to an await   *)
(* of something that is not settled yet, which is the fetch of the album   *)
(* inside getPhotos() and the download inside processImage()               *)
(***************************************************************************)
\* number of requests handled in one behaviour
MaxRequests == 4

Unnoted ==
  UNCHANGED << lastOp, lastResult, lastPath, lastCleared, preIndex, preTotal, preRecent >>

Unpicked ==
  UNCHANGED << catalog, recentHistory, navigationHistory, navigationIndex,
               taggedOnThisDay, pickLog >>

\* res.send(image): the handler of request c is done
Answered(c, image) ==
  /\ response' = image
  /\ inflight' = Left(c)
  /\ UNCHANGED currentImageCache

\* the handler of request c goes into processImage(photo) and waits for
\* the download
Processing(c, route, photo) ==
  /\ inflight' = Entered(c, [kind |-> route, at |-> "processImage", photo |-> photo])
  /\ UNCHANGED server

\* the handler of route for request c from the value of getPhotos() on:
\* the empty album is answered with an error image, else pickPhoto(photos)
Picked(c, route, photos) ==
  IF photos.items = <<>>
    THEN /\ Answered(c, ErrorImage("No photos in album"))
         /\ Unpicked
         /\ Unnoted
    ELSE /\ catalog' = photos
         /\ \E o \in pickPhoto(photos, recentHistory) :
              /\ Noted("pickPhoto", o.photo, o.path, o.cleared)
              /\ RecordPick(o)
              /\ IF o.photo = NullValue
                   THEN Answered(c, ErrorImage("Failed to select photo"))
                   ELSE Processing(c, route, o.photo)

\* `await getPhotos()` in the handler of route: the handler goes on at once
\* with the cached list, or waits for the fetch its refresh() starts
AwaitPhotos(c, route) ==
  IF (cachedPhotos.items = <<>> \/ needsRefresh(lastRefresh)) /\ ~isRefreshing
    THEN /\ isRefreshing' = TRUE
         /\ fetching' = fetching \cup {c}
         /\ inflight' = Entered(c, [kind |-> route, at |-> "fetchAlbum"])
         /\ UNCHANGED << cachedPhotos, lastRefresh, server >>
         /\ Unpicked
         /\ Unnoted
    ELSE /\ Picked(c, route, cachedPhotos)
         /\ UNCHANGED album

\* GET /image
ImageRequest(c, forceRefresh) ==
  /\ steps < MaxRequests
  /\ Idle(c)
  /\ steps' = steps + 1
  /\ IF currentImageCache # NullValue /\ ~forceRefresh /\ imageCacheEnabled
       THEN /\ Answered(c, currentImageCache)
            /\ Unpicked
            /\ Unnoted
            /\ UNCHANGED album
       ELSE AwaitPhotos(c, "image")
  /\ UNCHANGED << config, pickCall, render >>

\* GET /next: getNextPhoto(), and with null from it getPhotos and pickPhoto
NextRequest(c) ==
  /\ steps < MaxRequests
  /\ Idle(c)
  /\ steps' = steps + 1
  /\ IF navigationIndex >= Len(navigationHistory) - 1
       THEN AwaitPhotos(c, "next")
       ELSE /\ navigationIndex' = navigationIndex + 1
            /\ Noted("getNextPhoto", navigationHistory[(navigationIndex + 1) + 1], "none", 0)
            /\ Processing(c, "next", navigationHistory[(navigationIndex + 1) + 1])
            /\ UNCHANGED << catalog, recentHistory, navigationHistory, taggedOnThisDay,
                            pickLog, album >>
  /\ UNCHANGED << config, pickCall, render >>

\* GET /previous: getPreviousPhoto(), and with null from it the cached
\* image or an error image
PreviousRequest(c) ==
  /\ steps < MaxRequests
  /\ Idle(c)
  /\ steps' = steps + 1
  /\ IF navigationIndex <= 0
       THEN /\ Answered(c, IF currentImageCache # NullValue
                             THEN currentImageCache
                             ELSE ErrorImage("No previous image"))
            /\ Noted("getPreviousPhoto", NullValue, "none", 0)
            /\ UNCHANGED navigationIndex
       ELSE /\ navigationIndex' = navigationIndex - 1
            /\ Noted("getPreviousPhoto", navigationHistory[(navigationIndex - 1) + 1],
                     "none", 0)
            /\ Processing(c, "previous", navigationHistory[(navigationIndex - 1) + 1])
  /\ UNCHANGED << config, pickCall, render, catalog, recentHistory, navigationHistory,
                  taggedOnThisDay, pickLog, album >>

\* the fetch of request c resolves: refresh and getPhotos return, the
\* handler goes on with the new list
PhotosArrive(c, photos) ==
  /\ c \in fetching
  /\ c \in Requests
  /\ cachedPhotos' = photos
  /\ lastRefresh' = RecentRefresh
  /\ isRefreshing' = FALSE
  /\ fetching' = fetching \ {c}
  /\ Picked(c, inflight[c].kind, photos)
  /\ UNCHANGED << config, pickCall, render, steps >>

\* the fetch of request c rejects: with nothing cached getPhotos throws and
\* the handler answers from its catch block, else it goes on with the old list
PhotosFail(c) ==
  /\ c \in fetching
  /\ c \in Requests
  /\ isRefreshing' = FALSE
  /\ fetching' = fetching \ {c}
  /\ UNCHANGED << cachedPhotos, lastRefresh >>
  /\ IF cachedPhotos.items = <<>>
       THEN /\ Answered(c, ErrorImage("Processing error"))
            /\ Unpicked
            /\ Unnoted
       ELSE Picked(c, inflight[c].kind, cachedPhotos)
  /\ UNCHANGED << config, pickCall, render, steps >>

\* processImage of request c ends: the image is cached and sent, or the
\* catch block sends an error image
ImageProcessed(c, downloaded) ==
  /\ c \in DOMAIN inflight
  /\ inflight[c].at = "processImage"
  /\ inflight' = Left(c)
  /\ IF downloaded
       THEN /\ response' = ProcessedImage(inflight[c].photo)
            /\ currentImageCache' =
                 IF imageCacheEnabled THEN ProcessedImage(inflight[c].photo)
                                      ELSE currentImageCache
       ELSE /\ response' = ErrorImage("Processing error")
            /\ UNCHANGED currentImageCache
  /\ Unpicked
  /\ Unnoted
  /\ UNCHANGED << config, pickCall, render, steps, album >>

\* the album as it is found by a fetch
FetchedAlbums == {Array(<<PhotoB, PhotoC>>)}

RequestImage == \E c \in Requests, forceRefresh \in BOOLEAN : ImageRequest(c, forceRefresh)

RequestNext == \E c \in Requests : NextRequest(c)

RequestPrevious == \E c \in Requests : PreviousRequest(c)

AlbumArrives == \E c \in Requests, photos \in FetchedAlbums : PhotosArrive(c, photos)

AlbumFails == \E c \in Requests : PhotosFail(c)

ProcessingEnds == \E c \in Requests, downloaded \in BOOLEAN : ImageProcessed(c, downloaded)

NextRequests ==
  \/ RequestImage
  \/ RequestNext
  \/ RequestPrevious
  \/ AlbumArrives
  \/ AlbumFails
  \/ ProcessingEnds
  \/ TimePasses

\* the server after start(): the album was fetched, or the fetch failed
InitRequests ==
  /\ LoadedWith(1..MaxHistorySize)
  /\ timeBuckets = DefaultTimeBuckets
  /\ imageCacheEnabled = TRUE
  /\ catalog = NullValue
  /\ pickCall = NullValue
  /\ inflight = <<>>
  /\ \/ cachedPhotos \in FetchedAlbums /\ lastRefresh = RecentRefresh
     \/ cachedPhotos = Array(<<>>) /\ lastRefresh = NullValue
  /\ isRefreshing = FALSE
  /\ fetching = {}

SpecRequests == InitRequests /\ [][NextRequests]_vars

\* request c handles route and pickPhoto returns a photo to it in this step
PicksFor(c, route) ==
  /\ c \in DOMAIN inflight'
  /\ inflight'[c].kind = route
  /\ inflight'[c].at = "processImage"
  /\ c \in DOMAIN inflight => inflight[c].at = "fetchAlbum"
  /\ lastOp' = "pickPhoto"

\* C36: when the pick of a GET /next request is appended, the cursor is at
\* the tail of the navigation history, so no forward entry is cut off.
NextPickKeepsForwardEntries ==
  [][ \A c \in Requests :
        PicksFor(c, "next") => navigationIndex = Len(navigationHistory) - 1
    ]_vars

\* C35: whatever the order in which the steps of the requests handled side
\* by side are taken, after every step the cursor is -1 with an empty
\* navigation history and a position in it otherwise, the recent history
\* holds at most historySize urls and the navigation history at most
\* 2 * historySize records, and a step that changes the navigation history
\* appends one record to the records up to the cursor and drops at most
\* the oldest one.
InterleavedRequestsKeepSelectionState ==
  [][ /\ navigationIndex' >= (IF navigationHistory' = <<>> THEN 0 - 1 ELSE 0)
      /\ navigationIndex' <= Len(navigationHistory') - 1
      /\ Len(recentHistory') <= historySize
      /\ Len(navigationHistory') <= 2 * historySize
      /\ navigationHistory' # navigationHistory
           => LET kept == SubSeq(navigationHistory, 1, navigationIndex + 1)
                  pushed == Append(kept, navigationHistory'[Len(navigationHistory')])
              IN /\ navigationHistory' # <<>>
                 /\ navigationHistory' \in {pushed, Tail(pushed)}
                 /\ navigationIndex' = Len(navigationHistory') - 1
    ]_vars

\* a pick was appended to a full navigation history, which dropped its
\* oldest record, while the other request was waiting for its download
EvictionBetweenRequests ==
  /\ lastOp = "pickPhoto"
  /\ lastResult # NullValue
  /\ preTotal = 2 * historySize
  /\ preIndex = preTotal - 1
  /\ Len(navigationHistory) = 2 * historySize
  /\ \A c \in Requests : c \in DOMAIN inflight /\ inflight[c].at = "processImage"

====
